---- MODULE Spec2Model ----
(***************************************************************************)
(* A model of the web-builder workflow of Eima-M/AI-Web-Builder: the six   *)
(* workflow steps (parseRequirements, createRepository,                    *)
(* initializeFramework, generateWebsiteStructure, generateWebsiteContent,  *)
(* finalizeWebsite), the hosting API they talk to, and the pure text       *)
(* functions they use (project-name synthesis, business-type classifier).  *)
(*                                                                         *)
(* Text is modelled character by character: a string is a sequence of      *)
(* one-character strings, so that trimming, splitting, replacing and       *)
(* truncating are computed the way the code computes them.                 *)
(***************************************************************************)
EXTENDS Integers, Sequences, FiniteSets, TLC

VARIABLES
    report,     \* the requirements report handed to parseRequirements
    clock,      \* what new Date() and Date.now() return during the run
    phase,      \* "input" before a pure function is applied, "applied" after
    parsed,     \* the outcome of parseRequirements on report
    category,   \* the business type of report, as each inferBusinessType has it
    mode,       \* "workflow": the whole chain runs; "step": one step is executed
    token,      \* whether process.env.GITHUB_TOKEN is set (and valid)
    owner,      \* the login of the account the token belongs to
    apiUp,      \* whether the hosting API can be reached
    flips,      \* how many times the hosting API went away or came back
    pc,         \* the step that is running, or "done", "failed", "idle"
    at,         \* where in the step: "enter", "post", "llm", "get", "put"
    idx,        \* the index of the file the loop of the step is at
    sha,        \* the sha the loop holds for that file, "none" if undefined
    components, \* componentsCreated of generateWebsiteStructure
    input,      \* the record the running step was given
    repos,      \* the repositories that exist, as <<owner, name>>
    files,      \* for each path of the repository, the step that last wrote it
    lastCall,   \* the last call made to the hosting API and its answer
    writes,     \* for each step, the POST and PUT calls it made
    reads,      \* for each step, the GET calls it made
    landed,     \* for each step, its POST and PUT calls that succeeded
    attempted,  \* for each step, the files its loop went through, in order
    started,    \* the steps whose execute began, in order
    returned,   \* the steps whose execute returned, in order
    outs,       \* the records the steps returned, in order
    error,      \* the message of the error that ended the run, or "none"
    analysis,   \* for each step with a language-model call, how it ended
    peer        \* a second run under the same credential, as a record

pureVars == <<report, clock, phase, parsed, category>>

envVars == <<mode, token, owner, apiUp, flips>>

runVars ==
    <<pc, at, idx, sha, components, input, repos, files, lastCall, writes,
      reads, landed, attempted, started, returned, outs, error, analysis>>

vars == <<pureVars, envVars, runVars, peer>>

(***************************************************************************)
(* Characters and the string operations of the JavaScript runtime that the *)
(* code uses.                                                              *)
(***************************************************************************)
LowerLetters ==
    { "a", "b", "c", "d", "e", "f", "g", "h", "i", "j", "k", "l", "m",
      "n", "o", "p", "q", "r", "s", "t", "u", "v", "w", "x", "y", "z" }

DigitChars ==
    { "0", "1", "2", "3", "4", "5", "6", "7", "8", "9" }

\* The characters the regular-expression class \s matches, as far as the
\* model's alphabet goes.
WhitespaceChars == {" ", "\t", "\n"}

LowerOf ==
    ("A" :> "a") @@ ("B" :> "b") @@ ("C" :> "c") @@ ("D" :> "d") @@ ("E" :> "e") @@ ("F" :> "f") @@
    ("G" :> "g") @@ ("H" :> "h") @@ ("I" :> "i") @@ ("J" :> "j") @@ ("K" :> "k") @@ ("L" :> "l") @@
    ("M" :> "m") @@ ("N" :> "n") @@ ("O" :> "o") @@ ("P" :> "p") @@ ("Q" :> "q") @@ ("R" :> "r") @@
    ("S" :> "s") @@ ("T" :> "t") @@ ("U" :> "u") @@ ("V" :> "v") @@ ("W" :> "w") @@ ("X" :> "x") @@
    ("Y" :> "y") @@ ("Z" :> "z")

ToLowerChar(c) == IF c \in DOMAIN LowerOf THEN LowerOf[c] ELSE c

\* String.prototype.toLowerCase
ToLowerCase(s) == [i \in 1..Len(s) |-> ToLowerChar(s[i])]

Min(a, b) == IF a <= b THEN a ELSE b

RECURSIVE DropLeading(_, _)
\* s without its longest prefix of characters of cls
DropLeading(s, cls) ==
    IF s # <<>> /\ Head(s) \in cls THEN DropLeading(Tail(s), cls) ELSE s

RECURSIVE DropTrailing(_, _)
\* s without its longest suffix of characters of cls
DropTrailing(s, cls) ==
    IF s # <<>> /\ s[Len(s)] \in cls
    THEN DropTrailing(SubSeq(s, 1, Len(s) - 1), cls)
    ELSE s

\* String.prototype.trim
Trim(s) == DropTrailing(DropLeading(s, WhitespaceChars), WhitespaceChars)

\* String.prototype.includes
Includes(s, sub) ==
    \E i \in 0..(Len(s) - Len(sub)) : SubSeq(s, i + 1, i + Len(sub)) = sub

\* String.prototype.substring(0, n)
Substring0(s, n) == SubSeq(s, 1, Min(n, Len(s)))

\* s.replace(/[^...]/g, '') : the characters of s that are in keep
KeepOnly(s, keep) == SelectSeq(s, LAMBDA c : c \in keep)

\* s.replace(/[^...]/g, rep) : every character outside keep becomes rep
ReplaceOutside(s, keep, rep) ==
    [i \in 1..Len(s) |-> IF s[i] \in keep THEN s[i] ELSE rep]

RECURSIVE CollapseRuns(_, _, _)
\* s.replace(/[cls]+/g, rep) : every maximal run of cls characters becomes rep
CollapseRuns(s, cls, rep) ==
    IF s = <<>> THEN <<>>
    ELSE IF Head(s) \in cls
         THEN <<rep>> \o CollapseRuns(DropLeading(Tail(s), cls), cls, rep)
         ELSE <<Head(s)>> \o CollapseRuns(Tail(s), cls, rep)

RECURSIVE SplitOn(_, _)
\* s.split(c) for a one-character separator c
SplitOn(s, c) ==
    IF \A i \in 1..Len(s) : s[i] # c THEN <<s>>
    ELSE LET k == CHOOSE i \in 1..Len(s) :
                      s[i] = c /\ \A j \in 1..(i - 1) : s[j] # c
         IN  <<SubSeq(s, 1, k - 1)>> \o SplitOn(SubSeq(s, k + 1, Len(s)), c)

RECURSIVE SplitRuns(_, _)
\* s.split(/[cls]+/) : the pieces between maximal runs of cls characters,
\* an empty piece included where s starts or ends with such a run
SplitRuns(s, cls) ==
    IF \A i \in 1..Len(s) : s[i] \notin cls THEN <<s>>
    ELSE LET k == CHOOSE i \in 1..Len(s) :
                      s[i] \in cls /\ \A j \in 1..(i - 1) : s[j] \notin cls
         IN  <<SubSeq(s, 1, k - 1)>>
                 \o SplitRuns(DropLeading(SubSeq(s, k, Len(s)), cls), cls)

RECURSIVE JoinWith(_, _)
\* Array.prototype.join
JoinWith(ws, sep) ==
    IF ws = <<>> THEN <<>>
    ELSE IF Len(ws) = 1 THEN ws[1]
    ELSE ws[1] \o sep \o JoinWith(Tail(ws), sep)

\* Array.prototype.slice(0, n)
Slice0(ws, n) == SubSeq(ws, 1, Min(n, Len(ws)))

\* The last position at which sub occurs in s (0 when it does not occur)
LastIndexOf(s, sub) ==
    LET found == {i \in 0..(Len(s) - Len(sub)) : SubSeq(s, i + 1, i + Len(sub)) = sub}
    IN  IF found = {} THEN 0 ELSE 1 + CHOOSE i \in found : \A j \in found : j <= i

RECURSIVE NatToString(_)
\* Number.prototype.toString for a natural number
NatToString(n) ==
    LET d == <<"0", "1", "2", "3", "4", "5", "6", "7", "8", "9">>
    IN  IF n < 10 THEN <<d[n + 1]>> ELSE NatToString(n \div 10) \o <<d[(n % 10) + 1]>>

\* String.prototype.slice(-n)
SliceLast(s, n) == SubSeq(s, (IF Len(s) > n THEN Len(s) - n + 1 ELSE 1), Len(s))

(***************************************************************************)
(* An optional value: JavaScript's undefined, or a defined value.          *)
(***************************************************************************)
Undefined == [defined |-> FALSE, value |-> <<>>]
Some(v) == [defined |-> TRUE, value |-> v]

\* x || undefined left out: an empty string is handed on as a value
AlwaysDefined(s) == Some(s)

\* x || undefined for a string x : the empty string is falsy
OrUndefined(s) == IF s = <<>> THEN Undefined ELSE Some(s)

(***************************************************************************)
(* parseRequirements and its helpers                                       *)
(***************************************************************************)
stopWords ==
    { <<"a">>,
      <<"a", "n">>,
      <<"t", "h", "e">>,
      <<"a", "n", "d">>,
      <<"o", "r">>,
      <<"b", "u", "t">>,
      <<"i", "n">>,
      <<"o", "n">>,
      <<"a", "t">>,
      <<"t", "o">>,
      <<"f", "o", "r">>,
      <<"o", "f">>,
      <<"w", "i", "t", "h">>,
      <<"b", "y">>,
      <<"i", "s">>,
      <<"a", "r", "e">>,
      <<"w", "a", "s">>,
      <<"w", "e", "r", "e">>,
      <<"b", "e">>,
      <<"b", "e", "e", "n">>,
      <<"b", "e", "i", "n", "g">>,
      <<"h", "a", "v", "e">>,
      <<"h", "a", "s">>,
      <<"h", "a", "d">>,
      <<"c", "r", "e", "a", "t", "e">>,
      <<"b", "u", "i", "l", "d">>,
      <<"m", "a", "k", "e">>,
      <<"d", "e", "v", "e", "l", "o", "p">>,
      <<"d", "e", "s", "i", "g", "n">>,
      <<"w", "e", "b", "s", "i", "t", "e">>,
      <<"s", "i", "t", "e">>,
      <<"w", "e", "b">>,
      <<"p", "a", "g", "e">> }

businessTerms ==
    { <<"p", "o", "r", "t", "f", "o", "l", "i", "o">>,
      <<"b", "u", "s", "i", "n", "e", "s", "s">>,
      <<"s", "h", "o", "p">>,
      <<"s", "t", "o", "r", "e">>,
      <<"b", "l", "o", "g">>,
      <<"a", "g", "e", "n", "c", "y">>,
      <<"s", "t", "u", "d", "i", "o">>,
      <<"c", "o", "m", "p", "a", "n", "y">> }

PurposeLabel == <<"M", "a", "i", "n", " ", "p", "u", "r", "p", "o", "s", "e", "/", "g", "o", "a", "l", ":">>
AudienceLabel == <<"T", "a", "r", "g", "e", "t", " ", "a", "u", "d", "i", "e", "n", "c", "e", ":">>
ObjectivesLabel == <<"B", "u", "s", "i", "n", "e", "s", "s", " ", "o", "b", "j", "e", "c", "t", "i", "v", "e", "s", ":">>
ProjectNameLabel == <<"p", "r", "o", "j", "e", "c", "t", " ", "n", "a", "m", "e", ":">>
WebsiteNameLabel == <<"w", "e", "b", "s", "i", "t", "e", " ", "n", "a", "m", "e", ":">>
WebsitePrefix == <<"w", "e", "b", "s", "i", "t", "e", "-">>
ProjectPrefix == <<"p", "r", "o", "j", "e", "c", "t", "-">>
KwProject == <<"p", "r", "o", "j", "e", "c", "t">>
KwWebsite == <<"w", "e", "b", "s", "i", "t", "e">>
KwName == <<"n", "a", "m", "e", ":">>

\* The shortest and the longest word extractKeyTerms keeps, the number of
\* terms a generated name takes, and the length a name is cut to.
MinTermLen == 3
MaxTermLen == 12
MaxTerms == 3
MaxNameLen == 25
FallbackDigits == 6

\* extractKeyTerms returning the words in the order of the text, with no
\* word put first
extractKeyTermsUnordered(text) ==
    LET cleaned == ReplaceOutside(ToLowerCase(text),
                       LowerLetters \cup DigitChars \cup WhitespaceChars, " ")
        pieces == SplitRuns(cleaned, WhitespaceChars)
    IN  SelectSeq(
            SelectSeq(pieces,
                LAMBDA w : Len(w) >= MinTermLen /\ w \notin stopWords),
            LAMBDA w : Len(w) <= MaxTermLen)

\* text.toLowerCase().replace(/[^a-z0-9\s]/g, ' ').split(/\s+/)
\*     .filter(len > 2 and not a stop word).filter(len <= 12),
\* then the business terms first and the other words after them
extractKeyTerms(text) ==
    LET cleaned == ReplaceOutside(ToLowerCase(text),
                       LowerLetters \cup DigitChars \cup WhitespaceChars, " ")
        pieces == SplitRuns(cleaned, WhitespaceChars)
        words == SelectSeq(
                     SelectSeq(pieces,
                         LAMBDA w : Len(w) >= MinTermLen /\ w \notin stopWords),
                     LAMBDA w : Len(w) <= MaxTermLen)
        priorityWords == SelectSeq(words, LAMBDA w : w \in businessTerms)
        inPriority(w) == \E i \in 1..Len(priorityWords) : priorityWords[i] = w
    IN  priorityWords \o SelectSeq(words, LAMBDA w : ~inPriority(w))

\* generateConciseProjectName taking two terms instead of three
generateConciseProjectNameTwoTerms(purpose) ==
    LET keyTerms == extractKeyTerms(purpose)
    IN  IF Len(keyTerms) > 0
        THEN ToLowerCase(JoinWith(Slice0(keyTerms, MaxTerms - 1), <<"-">>))
        ELSE <<>>

generateConciseProjectName(purpose) ==
    LET keyTerms == extractKeyTerms(purpose)
    IN  IF Len(keyTerms) > 0
        THEN ToLowerCase(JoinWith(Slice0(keyTerms, MaxTerms), <<"-">>))
        ELSE <<>>

\* sanitizeProjectName up to its removal of leading and trailing hyphens:
\* lowercase, drop all but letters, digits, whitespace and hyphens, turn
\* whitespace runs into hyphens, collapse hyphen runs, trim hyphens
sanitizeUncut(name) ==
    LET lower == ToLowerCase(name)
        kept == KeepOnly(lower,
                    LowerLetters \cup DigitChars \cup WhitespaceChars \cup {"-"})
        hyphenated == CollapseRuns(kept, WhitespaceChars, "-")
        single == CollapseRuns(hyphenated, {"-"}, "-")
    IN  DropTrailing(DropLeading(single, {"-"}), {"-"})

\* The chain without its last replacement: a cut name may end in a hyphen
sanitizeChainCutOnly(name) == Substring0(sanitizeUncut(name), MaxNameLen)

\* The whole chain of replacements of sanitizeProjectName, before its
\* fallback: the cut to 25 characters, then trailing hyphens removed
sanitizeChain(name) ==
    DropTrailing(Substring0(sanitizeUncut(name), MaxNameLen), {"-"})

\* Date.now() is hi * 10^6 + lo; its decimal text, cut to the last six digits
MillisSuffix(now) ==
    LET text == IF now.hi = 0 THEN NatToString(now.lo)
                ELSE NatToString(now.hi)
                         \o SliceLast(<<"0", "0", "0", "0", "0">>
                                          \o NatToString(now.lo), FallbackDigits)
    IN  SliceLast(text, FallbackDigits)

sanitizeProjectName(name, now) ==
    LET chained == sanitizeChain(name)
    IN  IF chained # <<>> THEN chained ELSE ProjectPrefix \o MillisSuffix(now)

\* new Date().toISOString().split('T')[0].replace(/-/g, '')
DateStamp(now) == SelectSeq(SplitOn(now.iso, "T")[1], LAMBDA c : c # "-")

\* line.replace(/.*LABEL\s*/, '') : the greedy .* runs to the last occurrence
\* of the label; without an occurrence the line is left as it is
AfterLabel(line, label) ==
    LET k == LastIndexOf(line, label)
    IN  IF k = 0 THEN line
        ELSE DropLeading(SubSeq(line, k + Len(label), Len(line)), WhitespaceChars)

\* Where a match of /(?:project|website)\s+name:/i that starts at position i
\* of the line ends (the position after it), or 0 when none starts there
NameMatchEnd(line, i) ==
    LET lower == ToLowerCase(line)
        j == i + Len(KwProject)
        rest == SubSeq(lower, j, Len(lower))
        afterWs == DropLeading(rest, WhitespaceChars)
        k == Len(rest) - Len(afterWs)
    IN  IF /\ j - 1 <= Len(lower)
           /\ SubSeq(lower, i, j - 1) \in {KwProject, KwWebsite}
           /\ k >= 1
           /\ Len(afterWs) >= Len(KwName)
           /\ SubSeq(afterWs, 1, Len(KwName)) = KwName
        THEN j + k + Len(KwName)
        ELSE 0

\* line.replace(/.*(?:project|website)\s+name:\s*/i, '')
AfterNamePattern(line) ==
    LET starts == {i \in 1..Len(line) : NameMatchEnd(line, i) # 0}
    IN  IF starts = {} THEN line
        ELSE LET i == CHOOSE x \in starts : \A y \in starts : y <= x
             IN  DropLeading(SubSeq(line, NameMatchEnd(line, i), Len(line)),
                             WhitespaceChars)

\* One pass of the loop keeping the first value of a field: a field that has
\* a value is not assigned again
ScanLineFirstWins(rawLine, acc) ==
    LET line == Trim(rawLine)
        a1 == IF Includes(line, PurposeLabel) /\ acc.purpose = <<>>
              THEN [acc EXCEPT !.purpose = Trim(AfterLabel(line, PurposeLabel))]
              ELSE acc
        a2 == IF Includes(line, AudienceLabel) /\ acc.targetAudience = <<>>
              THEN [a1 EXCEPT !.targetAudience = Trim(AfterLabel(line, AudienceLabel))]
              ELSE a1
        a3 == IF Includes(line, ObjectivesLabel) /\ acc.businessObjectives = <<>>
              THEN [a2 EXCEPT !.businessObjectives =
                                  Trim(AfterLabel(line, ObjectivesLabel))]
              ELSE a2
        extractedName == Trim(AfterNamePattern(line))
    IN  IF /\ \/ Includes(ToLowerCase(line), ProjectNameLabel)
              \/ Includes(ToLowerCase(line), WebsiteNameLabel)
           /\ extractedName # <<>>
        THEN [a3 EXCEPT !.projectName = extractedName]
        ELSE a3

\* One pass of the loop over the lines of the report: acc holds projectName,
\* purpose, targetAudience and businessObjectives as assigned so far
ScanLine(rawLine, acc) ==
    LET line == Trim(rawLine)
        a1 == IF Includes(line, PurposeLabel)
              THEN [acc EXCEPT !.purpose = Trim(AfterLabel(line, PurposeLabel))]
              ELSE acc
        a2 == IF Includes(line, AudienceLabel)
              THEN [a1 EXCEPT !.targetAudience = Trim(AfterLabel(line, AudienceLabel))]
              ELSE a1
        a3 == IF Includes(line, ObjectivesLabel)
              THEN [a2 EXCEPT !.businessObjectives =
                                  Trim(AfterLabel(line, ObjectivesLabel))]
              ELSE a2
        extractedName == Trim(AfterNamePattern(line))
    IN  IF /\ \/ Includes(ToLowerCase(line), ProjectNameLabel)
              \/ Includes(ToLowerCase(line), WebsiteNameLabel)
           /\ extractedName # <<>>
        THEN [a3 EXCEPT !.projectName = extractedName]
        ELSE a3

RECURSIVE ScanLines(_, _)
ScanLines(lines, acc) ==
    IF lines = <<>> THEN acc ELSE ScanLines(Tail(lines), ScanLine(Head(lines), acc))

\* The result of a step: either it threw (threw = TRUE, with the error it
\* raised) or it returned the record in value.
Threw(msg) == [threw |-> TRUE, error |-> msg]
Returned(rec) == [threw |-> FALSE, value |-> rec]

\* parseRequirements.execute naming the project from the purpose whenever
\* there is one, an explicit name or not
parseScanPurposeFirst(requirementsReport, now) ==
    LET scanned == ScanLines(SplitOn(requirementsReport, "\n"),
                       [projectName |-> <<>>, purpose |-> <<>>,
                        targetAudience |-> <<>>, businessObjectives |-> <<>>])
        generated == IF scanned.purpose # <<>>
                     THEN generateConciseProjectName(scanned.purpose)
                     ELSE scanned.projectName
        named == IF generated = <<>>
                 THEN WebsitePrefix \o DateStamp(now)
                 ELSE generated
    IN  Returned([projectName |-> sanitizeProjectName(named, now),
                  requirements |-> requirementsReport,
                  extractedInfo |->
                      [purpose |-> OrUndefined(scanned.purpose),
                       targetAudience |-> OrUndefined(scanned.targetAudience),
                       businessObjectives |-> OrUndefined(scanned.businessObjectives)],
                  success |-> TRUE])

\* parseRequirements.execute keeping the dated default for reports without a
\* purpose: a purpose that yields no name is handed to sanitizeProjectName as
\* the empty string
parseScanDatedOnlyWithoutPurpose(requirementsReport, now) ==
    LET scanned == ScanLines(SplitOn(requirementsReport, "\n"),
                       [projectName |-> <<>>, purpose |-> <<>>,
                        targetAudience |-> <<>>, businessObjectives |-> <<>>])
        generated == IF scanned.projectName = <<>> /\ scanned.purpose # <<>>
                     THEN generateConciseProjectName(scanned.purpose)
                     ELSE scanned.projectName
        named == IF generated = <<>> /\ scanned.purpose = <<>>
                 THEN WebsitePrefix \o DateStamp(now)
                 ELSE generated
    IN  Returned([projectName |-> sanitizeProjectName(named, now),
                  requirements |-> requirementsReport,
                  extractedInfo |->
                      [purpose |-> OrUndefined(scanned.purpose),
                       targetAudience |-> OrUndefined(scanned.targetAudience),
                       businessObjectives |-> OrUndefined(scanned.businessObjectives)],
                  success |-> TRUE])

\* parseRequirements.execute after its test of the input: the scan of the
\* lines, the choice of the name and the record returned
parseScan(requirementsReport, now) ==
    LET scanned == ScanLines(SplitOn(requirementsReport, "\n"),
                       [projectName |-> <<>>, purpose |-> <<>>,
                        targetAudience |-> <<>>, businessObjectives |-> <<>>])
        generated == IF scanned.projectName = <<>> /\ scanned.purpose # <<>>
                     THEN generateConciseProjectName(scanned.purpose)
                     ELSE scanned.projectName
        named == IF generated = <<>>
                 THEN WebsitePrefix \o DateStamp(now)
                 ELSE generated
    IN  Returned([projectName |-> sanitizeProjectName(named, now),
                  requirements |-> requirementsReport,
                  extractedInfo |->
                      [purpose |-> OrUndefined(scanned.purpose),
                       targetAudience |-> OrUndefined(scanned.targetAudience),
                       businessObjectives |-> OrUndefined(scanned.businessObjectives)],
                  success |-> TRUE])

\* parseRequirements.execute without its test of the input
parseRequirementsNoInputTest(requirementsReport, now) ==
    parseScan(requirementsReport, now)

\* parseRequirements.execute on a report, at the time now
parseRequirements(requirementsReport, now) ==
    IF requirementsReport = <<>> \/ Trim(requirementsReport) = <<>>
    THEN Threw("Requirements report is required but was not provided or is empty")
    ELSE parseScan(requirementsReport, now)

(***************************************************************************)
(* inferBusinessType: the business type of a requirements text             *)
(***************************************************************************)
\* The keywords each line of inferBusinessType looks for
keywords ==
    [ technology |->
          { <<"s", "o", "f", "t", "w", "a", "r", "e">>,
            <<"t", "e", "c", "h", "n", "o", "l", "o", "g", "y">>,
            <<"d", "e", "v", "e", "l", "o", "p", "m", "e", "n", "t">> },
      consulting |->
          { <<"c", "o", "n", "s", "u", "l", "t", "i", "n", "g">>,
            <<"a", "d", "v", "i", "s", "o", "r", "y">>,
            <<"s", "t", "r", "a", "t", "e", "g", "y">> },
      creative |->
          { <<"d", "e", "s", "i", "g", "n">>,
            <<"c", "r", "e", "a", "t", "i", "v", "e">>,
            <<"a", "r", "t">> },
      healthcare |->
          { <<"h", "e", "a", "l", "t", "h">>,
            <<"m", "e", "d", "i", "c", "a", "l">>,
            <<"c", "l", "i", "n", "i", "c">> },
      education |->
          { <<"e", "d", "u", "c", "a", "t", "i", "o", "n">>,
            <<"l", "e", "a", "r", "n", "i", "n", "g">>,
            <<"s", "c", "h", "o", "o", "l">> },
      restaurant |->
          { <<"r", "e", "s", "t", "a", "u", "r", "a", "n", "t">>,
            <<"f", "o", "o", "d">>,
            <<"d", "i", "n", "i", "n", "g">> },
      retail |->
          { <<"r", "e", "t", "a", "i", "l">>,
            <<"s", "h", "o", "p">>,
            <<"s", "t", "o", "r", "e">> } ]

\* lowerReq.includes(k1) || lowerReq.includes(k2) || lowerReq.includes(k3)
HasAny(s, kws) == \E k \in kws : Includes(s, k)

\* inferBusinessType without its last line: nothing is returned when no
\* keyword occurs
inferBusinessTypeNoDefault(requirements) ==
    LET lowerReq == ToLowerCase(requirements)
    IN
        IF HasAny(lowerReq, keywords.technology) THEN "technology"
        ELSE IF HasAny(lowerReq, keywords.consulting) THEN "consulting"
        ELSE IF HasAny(lowerReq, keywords.creative) THEN "creative"
        ELSE IF HasAny(lowerReq, keywords.healthcare) THEN "healthcare"
        ELSE IF HasAny(lowerReq, keywords.education) THEN "education"
        ELSE IF HasAny(lowerReq, keywords.restaurant) THEN "restaurant"
        ELSE IF HasAny(lowerReq, keywords.retail) THEN "retail"
        ELSE "undefined"

\* inferBusinessType with the creative line before the consulting line
inferBusinessTypeCreativeFirst(requirements) ==
    LET lowerReq == ToLowerCase(requirements)
    IN
        IF HasAny(lowerReq, keywords.technology) THEN "technology"
        ELSE IF HasAny(lowerReq, keywords.creative) THEN "creative"
        ELSE IF HasAny(lowerReq, keywords.consulting) THEN "consulting"
        ELSE IF HasAny(lowerReq, keywords.healthcare) THEN "healthcare"
        ELSE IF HasAny(lowerReq, keywords.education) THEN "education"
        ELSE IF HasAny(lowerReq, keywords.restaurant) THEN "restaurant"
        ELSE IF HasAny(lowerReq, keywords.retail) THEN "retail"
        ELSE "general"

\* inferBusinessType of the content step (it feeds parseGeneratedContent,
\* extractServices and inferIndustry)
inferBusinessType(requirements) ==
    LET lowerReq == ToLowerCase(requirements)
    IN
        IF HasAny(lowerReq, keywords.technology) THEN "technology"
        ELSE IF HasAny(lowerReq, keywords.consulting) THEN "consulting"
        ELSE IF HasAny(lowerReq, keywords.creative) THEN "creative"
        ELSE IF HasAny(lowerReq, keywords.healthcare) THEN "healthcare"
        ELSE IF HasAny(lowerReq, keywords.education) THEN "education"
        ELSE IF HasAny(lowerReq, keywords.restaurant) THEN "restaurant"
        ELSE IF HasAny(lowerReq, keywords.retail) THEN "retail"
        ELSE "general"

\* inferBusinessType of the finalizer (it feeds generateREADME)
inferBusinessTypeFinalizer(requirements) ==
    LET lowerReq == ToLowerCase(requirements)
    IN
        IF HasAny(lowerReq, keywords.technology) THEN "technology"
        ELSE IF HasAny(lowerReq, keywords.consulting) THEN "consulting"
        ELSE IF HasAny(lowerReq, keywords.creative) THEN "creative"
        ELSE IF HasAny(lowerReq, keywords.healthcare) THEN "healthcare"
        ELSE IF HasAny(lowerReq, keywords.education) THEN "education"
        ELSE IF HasAny(lowerReq, keywords.restaurant) THEN "restaurant"
        ELSE IF HasAny(lowerReq, keywords.retail) THEN "retail"
        ELSE "general"

(***************************************************************************)
(* The reports parseRequirements is applied to.  A report is either one    *)
(* line, a label followed by up to MaxWords words, or up to MaxLines short *)
(* lines.                                                                  *)
(***************************************************************************)
MaxWords == 3
MaxLines == 2

\* All sequences over S of length at most n
SeqsUpTo(S, n) == UNION {[1..k -> S] : k \in 0..n}

Vocabulary ==
    { <<"p", "o", "r", "t", "f", "o", "l", "i", "o">>,
      <<"p", "h", "o", "t", "o", "g", "r", "a", "p", "h", "y">>,
      <<"a", "r", "c", "h", "i", "t", "e", "c", "t", "u", "r", "e">>,
      <<"t", "h", "e">>,
      <<"B", "l", "o", "g", "!">>,
      <<"-", "-">>,
      <<"e", "2">>,
      <<"s", "t", "u", "d", "i", "o", "/", "s", "t", "o", "r", "e">> }

LineLabels ==
    { <<>>,
      PurposeLabel,
      <<"-", " ">> \o PurposeLabel,
      AudienceLabel,
      ObjectivesLabel,
      <<"t", "a", "r", "g", "e", "t", " ", "a", "u", "d", "i", "e", "n", "c", "e", ":">>,
      <<"P", "r", "o", "j", "e", "c", "t", " ", "N", "a", "m", "e", ":">>,
      <<"w", "e", "b", "s", "i", "t", "e", " ", " ", "n", "a", "m", "e", ":">>,
      WebsiteNameLabel }

ShortValues == { <<>>, <<"s", "h", "o", "p">>, <<"!", "!">> }

OneLineReports ==
    { lab \o <<" ">> \o JoinWith(ws, <<" ">>) :
          lab \in LineLabels, ws \in SeqsUpTo(Vocabulary, MaxWords) }

ShortLines == { lab \o <<" ">> \o v : lab \in LineLabels, v \in ShortValues }

ManyLineReports ==
    { JoinWith(ls, <<"\n">>) : ls \in SeqsUpTo(ShortLines, MaxLines) }

\* The purpose line of the example report, and reports that hold it: the
\* line alone, the line as a list item, and the example report as a whole
ScenarioPurpose ==
    <<"C", "r", "e", "a", "t", "e", " ", "a", " ", "m", "o", "d", "e", "r", "n", " ", "p", "o", "r", "t", "f", "o", "l", "i", "o", " ", "w", "e", "b", "s", "i", "t", "e", " ", "f", "o", "r", " ", "a", " ", "f", "r", "e", "e", "l", "a", "n", "c", "e", " ", "g", "r", "a", "p", "h", "i", "c", " ", "d", "e", "s", "i", "g", "n", "e", "r">>

ScenarioReports ==
    { PurposeLabel \o <<" ">> \o ScenarioPurpose,
      <<"-", " ">> \o PurposeLabel \o <<" ">> \o ScenarioPurpose,
      <<"W", "E", "B", "S", "I", "T", "E", " ", "R", "E", "Q", "U", "I", "R", "E", "M", "E", "N", "T", "S", " ", "R", "E", "P", "O", "R", "T", "\n", "G", "e", "n", "e", "r", "a", "t", "e", "d", ":", " ", "8", "/", "3", "/", "2", "0", "2", "5", "\n", "=", "=", "=", "=", "=", "=", "=", "=", "=", "=", "=", "=", "=", "=", "=", "=", "=", "=", "=", "=", "=", "=", "=", "=", "=", "=", "=", "=", "=", "=", "=", "=", "=", "=", "=", "\n", "\n", "P", "R", "O", "J", "E", "C", "T", " ", "O", "V", "E", "R", "V", "I", "E", "W", " ", "&", " ", "P", "U", "R", "P", "O", "S", "E", "\n", "-", " ">>
          \o PurposeLabel \o <<" ">> \o ScenarioPurpose
          \o <<"\n", "-", " ", "T", "a", "r", "g", "e", "t", " ", "a", "u", "d", "i", "e", "n", "c", "e", ":", " ", "P", "o", "t", "e", "n", "t", "i", "a", "l", " ", "c", "l", "i", "e", "n", "t", "s", ",", " ", "c", "r", "e", "a", "t", "i", "v", "e", " ", "a", "g", "e", "n", "c", "i", "e", "s", ",", " ", "a", "n", "d", " ", "d", "e", "s", "i", "g", "n", " ", "s", "t", "u", "d", "i", "o", "s", "\n", "-", " ", "K", "e", "y", " ", "v", "i", "s", "i", "t", "o", "r", " ", "a", "c", "t", "i", "o", "n", "s", ":", " ", "V", "i", "e", "w", " ", "p", "o", "r", "t", "f", "o", "l", "i", "o", ",", " ", "c", "o", "n", "t", "a", "c", "t", " ", "f", "o", "r", " ", "p", "r", "o", "j", "e", "c", "t", "s", ",", " ", "d", "o", "w", "n", "l", "o", "a", "d", " ", "r", "e", "s", "u", "m", "e", "\n", "-", " ", "B", "u", "s", "i", "n", "e", "s", "s", " ", "o", "b", "j", "e", "c", "t", "i", "v", "e", "s", ":", " ", "I", "n", "c", "r", "e", "a", "s", "e", " ", "c", "l", "i", "e", "n", "t", " ", "i", "n", "q", "u", "i", "r", "i", "e", "s", " ", "b", "y", " ", "4", "0", "%", ",", " ", "s", "h", "o", "w", "c", "a", "s", "e", " ", "r", "e", "c", "e", "n", "t", " ", "w", "o", "r", "k", "\n", "-", " ", "E", "x", "i", "s", "t", "i", "n", "g", " ", "v", "i", "s", "u", "a", "l", " ", "a", "s", "s", "e", "t", "s", ":", " ", "L", "o", "g", "o", ",", " ", "b", "r", "a", "n", "d", " ", "c", "o", "l", "o", "r", "s", " ", "(", "b", "l", "u", "e", " ", "a", "n", "d", " ", "o", "r", "a", "n", "g", "e", ")", ",", " ", "s", "a", "m", "p", "l", "e", " ", "w", "o", "r", "k", " ", "i", "m", "a", "g", "e", "s", "\n", "\n", "=", "=", "=", "=", "=", "=", "=", "=", "=", "=", "=", "=", "=", "=", "=", "=", "=", "=", "=", "=", "=", "=", "=", "=", "=", "=", "=", "=", "=", "=", "=", "=", "=", "=", "=", "\n", "E", "n", "d", " ", "o", "f", " ", "R", "e", "p", "o", "r", "t", "\n">> }

Reports == OneLineReports \cup ManyLineReports \cup ScenarioReports

\* The clock: the ISO text of new Date() and Date.now() = hi * 10^6 + lo
Clocks ==
    { [iso |-> <<"2", "0", "2", "5", "-", "0", "8", "-", "0", "3", "T", "1", "0", ":", "1", "5", ":", "3", "0", ".", "0", "0", "0", "Z">>, hi |-> 1754216, lo |-> 130000],
      [iso |-> <<"2", "0", "2", "6", "-", "0", "1", "-", "0", "9", "T", "2", "3", ":", "0", "6", ":", "4", "0", ".", "0", "4", "2", "Z">>, hi |-> 1768000, lo |-> 42] }

NotParsed == Threw("not run")
NotClassified == [content |-> "not run", finalizer |-> "not run"]

(***************************************************************************)
(* The workflow: parseRequirements, then createRepository, then            *)
(* initializeFramework, then generateWebsiteStructure, then                *)
(* generateWebsiteContent, then finalizeWebsite.  Each step gets the       *)
(* record the step before it returned; a step that throws ends the run.    *)
(* A step can also be executed on its own, on any input record.            *)
(***************************************************************************)
StageOrderStructureFirst ==
    <<"parseRequirements", "createRepository", "generateWebsiteStructure",
      "initializeFramework", "generateWebsiteContent", "finalizeWebsite">>

StageOrder ==
    <<"parseRequirements", "createRepository", "initializeFramework",
      "generateWebsiteStructure", "generateWebsiteContent", "finalizeWebsite">>

IndexOf(seq, x) == CHOOSE i \in 1..Len(seq) : seq[i] = x

Last(seq) == seq[Len(seq)]

\* The files each step writes, in the order it writes them
FrameworkFiles ==
    <<"package.json", "index.html", "vite.config.ts", "tsconfig.json",
      "tsconfig.node.json", "src/main.tsx", "src/App.tsx", "src/App.css",
      "src/index.css", "README.md">>

StructureFiles ==
    <<"src/App.tsx", "src/App.css", "src/index.css",
      "src/components/Header.tsx", "src/components/Hero.tsx",
      "src/components/About.tsx", "src/components/Services.tsx",
      "src/components/Contact.tsx", "src/components/Footer.tsx",
      "public/images/hero-bg.svg", "public/images/logo.svg",
      "public/images/service-1.svg", "public/images/service-2.svg",
      "public/images/service-3.svg", "public/images/about-image.svg">>

ContentFiles ==
    <<"src/components/Hero.tsx", "src/components/About.tsx",
      "src/components/Services.tsx", "src/App.css">>

FinalFiles ==
    <<"README.md", ".gitignore", "public/robots.txt", "public/manifest.json",
      ".env.example">>

FilesOf(stage) ==
    CASE stage = "initializeFramework" -> FrameworkFiles
      [] stage = "generateWebsiteStructure" -> StructureFiles
      [] stage = "generateWebsiteContent" -> ContentFiles
      [] stage = "finalizeWebsite" -> FinalFiles
      [] OTHER -> <<>>

Range(seq) == {seq[i] : i \in 1..Len(seq)}

Paths ==
    Range(FrameworkFiles) \cup Range(StructureFiles) \cup Range(ContentFiles)
        \cup Range(FinalFiles)

\* file.path.includes('components/'), for the paths of StructureFiles
InComponents(path) ==
    path \in {"src/components/Header.tsx", "src/components/Hero.tsx",
              "src/components/About.tsx", "src/components/Services.tsx",
              "src/components/Contact.tsx", "src/components/Footer.tsx"}

\* The generators of generateWebsiteFiles that are given projectName, and
\* those that are given the extractedInfo parsed from requirements
TakesProjectName(path) ==
    path \in {"src/App.tsx", "src/components/Header.tsx",
              "src/components/Hero.tsx", "src/components/Footer.tsx",
              "public/images/logo.svg"}

TakesRequirements(path) ==
    path \in {"src/App.tsx", "src/App.css", "src/index.css"} \/ InComponents(path)

\* generateWebsiteFiles with the text of the analysis written into every
\* file generated from the requirements
generateWebsiteFilesFromAnalysis(structureAnalysis, requirements, projectName) ==
    [i \in 1..Len(StructureFiles) |->
        [path |-> StructureFiles[i],
         content |->
            [generator |-> StructureFiles[i],
             extractedInfo |-> IF TakesRequirements(StructureFiles[i])
                               THEN <<requirements, structureAnalysis>>
                               ELSE <<>>,
             projectName |-> IF TakesProjectName(StructureFiles[i])
                             THEN projectName ELSE <<>>]]]

\* generateWebsiteFiles: the files of the structure step.  The content of a
\* file is what its generator makes of the arguments it is given; no
\* generator is given structureAnalysis
generateWebsiteFiles(structureAnalysis, requirements, projectName) ==
    [i \in 1..Len(StructureFiles) |->
        [path |-> StructureFiles[i],
         content |->
            [generator |-> StructureFiles[i],
             extractedInfo |-> IF TakesRequirements(StructureFiles[i])
                               THEN <<requirements>>
                               ELSE <<>>,
             projectName |-> IF TakesProjectName(StructureFiles[i])
                             THEN projectName ELSE <<>>]]]

\* The text the catch block of generateWebsiteStructure assigns
FallbackAnalysis(in) ==
    <<"F", "a", "l", "l", "b", "a", "c", "k", " ", "a", "n", "a", "l", "y", "s", "i", "s", " ", "f", "o", "r", " ">> \o in.projectName
        \o <<" ", "b", "a", "s", "e", "d", " ", "o", "n", " ", "r", "e", "q", "u", "i", "r", "e", "m", "e", "n", "t", "s", ":", " ">> \o in.requirements

\* Texts the language model may answer with
LlmResponses == { <<>>, <<"b", "l", "o", "g">>, <<"U", "s", "e", " ", "a", " ", "d", "a", "r", "k", " ", "t", "h", "e", "m", "e", " ", "a", "n", "d", " ", "d", "r", "o", "p", " ", "t", "h", "e", " ", "h", "e", "a", "d", "e", "r">> }

\* The flags a step tests on its input before it does anything else
\* (finalizeWebsite without its test of stylingCompleted)
RequiredFlagsNoStyling(stage) ==
    CASE stage = "createRepository" -> {"success"}
      [] stage = "initializeFramework" -> {"success"}
      [] stage = "generateWebsiteStructure" -> {"success", "frameworkInitialized"}
      [] stage = "generateWebsiteContent" -> {"success", "websiteGenerated"}
      [] stage = "finalizeWebsite" -> {"success", "contentGenerated"}
      [] OTHER -> {}

RequiredFlags(stage) ==
    CASE stage = "createRepository" -> {"success"}
      [] stage = "initializeFramework" -> {"success"}
      [] stage = "generateWebsiteStructure" -> {"success", "frameworkInitialized"}
      [] stage = "generateWebsiteContent" -> {"success", "websiteGenerated"}
      [] stage = "finalizeWebsite" ->
             {"success", "contentGenerated", "stylingCompleted"}
      [] OTHER -> {}

\* The message of the error a step raises when a flag it requires is not set
GateError(stage) ==
    CASE stage = "createRepository" ->
             "Requirements parsing failed, cannot create repository"
      [] stage = "initializeFramework" ->
             "Repository creation failed, cannot initialize framework"
      [] stage = "generateWebsiteStructure" ->
             "Framework initialization failed, cannot generate website"
      [] stage = "generateWebsiteContent" ->
             "Website generation failed, cannot generate content"
      [] OTHER -> "Previous steps failed, cannot finalize website"

\* The steps that test the project name of their input
ValidatesName == {"createRepository"}

\* The steps that call the language model, inside a try block of its own
UsesLlm == {"generateWebsiteStructure", "generateWebsiteContent"}

\* The steps that test process.env.GITHUB_TOKEN before they write
ChecksToken ==
    {"generateWebsiteStructure", "generateWebsiteContent", "finalizeWebsite"}

\* The steps whose loop reads the file (for its sha) before it writes it
ReadsHash == {"generateWebsiteContent", "finalizeWebsite"}

\* The steps whose loop has no try block of its own: a write that fails
\* ends the step
FatalWritesNone == {}

FatalWritesAll ==
    {"initializeFramework", "generateWebsiteStructure",
     "generateWebsiteContent", "finalizeWebsite"}

FatalWrites == {"initializeFramework"}

\* The owner initializeFramework writes to, whatever the repository URL
FrameworkOwner == <<"E", "i", "m", "a", "-", "M">>

OtherOwner == <<"o", "c", "t", "o">>

UrlBase ==
    <<"h", "t", "t", "p", "s", ":", "/", "/", "g", "i", "t", "h", "u", "b",
      ".", "c", "o", "m", "/">>

\* repoData.html_url of a repository
HtmlUrl(login, name) == UrlBase \o login \o <<"/">> \o name

\* urlParts[urlParts.length - 2] of repositoryUrl.split('/')
OwnerOfUrl(url) ==
    LET urlParts == SplitOn(url, "/")
    IN  IF Len(urlParts) >= 2 THEN urlParts[Len(urlParts) - 1] ELSE <<>>

\* !flag : the flag is missing from the record or false
Truthy(rec, f) == f \in DOMAIN rec /\ rec[f] = TRUE

\* !projectName || projectName.trim() === ''
NameMissing(rec) ==
    \/ "projectName" \notin DOMAIN rec
    \/ rec.projectName = <<>>
    \/ Trim(rec.projectName) = <<>>

\* The fields of rec among fs (a field the input lacks is undefined in the
\* output, which the model shows as the output lacking it)
Pick(rec, fs) == [f \in (fs \cap DOMAIN rec) |-> rec[f]]

\* The fields handed on, with requirements forgotten
IdentityNoRequirements == {"repositoryUrl", "repositoryName", "projectName"}

Identity == {"repositoryUrl", "repositoryName", "projectName", "requirements"}

\* What each step returns
createRepositoryOutput(in, repoData) ==
    Pick(in, {"projectName", "requirements", "extractedInfo"})
        @@ [repositoryUrl |-> repoData.html_url,
            repositoryName |-> repoData.name,
            success |-> TRUE]

initializeFrameworkOutput(in) ==
    Pick(in, Identity) @@ [frameworkInitialized |-> TRUE, success |-> TRUE]

\* generateWebsiteStructure reporting success only when a component file
\* was written
generateWebsiteStructureOutputCounted(in, componentsCreated) ==
    Pick(in, Identity)
        @@ [websiteGenerated |-> componentsCreated # <<>>,
            componentsCreated |-> componentsCreated,
            success |-> componentsCreated # <<>>]

generateWebsiteStructureOutput(in, componentsCreated) ==
    Pick(in, Identity)
        @@ [websiteGenerated |-> TRUE,
            componentsCreated |-> componentsCreated,
            success |-> TRUE]

\* generateWebsiteContent returning no projectName
generateWebsiteContentOutputNoName(in) ==
    Pick(in, Identity \ {"projectName"})
        @@ [contentGenerated |-> TRUE, stylingCompleted |-> TRUE, success |-> TRUE]

generateWebsiteContentOutput(in) ==
    Pick(in, Identity)
        @@ [contentGenerated |-> TRUE, stylingCompleted |-> TRUE, success |-> TRUE]

\* finalizeWebsite handing on the frameworkInitialized of its input, which
\* the content step does not return
finalizeWebsiteOutputHandedOn(in) ==
    Pick(in, Identity \cup {"frameworkInitialized"})
        @@ [websiteCompleted |-> TRUE, deploymentReady |-> TRUE, success |-> TRUE]

finalizeWebsiteOutput(in) ==
    Pick(in, Identity)
        @@ [frameworkInitialized |-> TRUE,
            websiteCompleted |-> TRUE,
            deploymentReady |-> TRUE,
            success |-> TRUE]

(***************************************************************************)
(* The state of a run, as one record, and its assignment to the variables  *)
(***************************************************************************)
Cur ==
    [pc |-> pc, at |-> at, idx |-> idx, sha |-> sha, components |-> components,
     input |-> input, repos |-> repos, files |-> files, lastCall |-> lastCall,
     writes |-> writes, reads |-> reads, landed |-> landed,
     attempted |-> attempted, started |-> started, returned |-> returned,
     outs |-> outs, error |-> error, analysis |-> analysis]

Commit(c) ==
    /\ pc' = c.pc
    /\ at' = c.at
    /\ idx' = c.idx
    /\ sha' = c.sha
    /\ components' = c.components
    /\ input' = c.input
    /\ repos' = c.repos
    /\ files' = c.files
    /\ lastCall' = c.lastCall
    /\ writes' = c.writes
    /\ reads' = c.reads
    /\ landed' = c.landed
    /\ attempted' = c.attempted
    /\ started' = c.started
    /\ returned' = c.returned
    /\ outs' = c.outs
    /\ error' = c.error
    /\ analysis' = c.analysis

Begin(c) ==
    /\ pc = c.pc
    /\ at = c.at
    /\ idx = c.idx
    /\ sha = c.sha
    /\ components = c.components
    /\ input = c.input
    /\ repos = c.repos
    /\ files = c.files
    /\ lastCall = c.lastCall
    /\ writes = c.writes
    /\ reads = c.reads
    /\ landed = c.landed
    /\ attempted = c.attempted
    /\ started = c.started
    /\ returned = c.returned
    /\ outs = c.outs
    /\ error = c.error
    /\ analysis = c.analysis

NoCall ==
    [stage |-> "none", method |-> "none", path |-> "none", sent |-> "none",
     before |-> "none", read |-> "none", kind |-> "none"]

Stages == Range(StageOrder)

\* A run that has not begun: no repository, no call made, no step started
Fresh ==
    [pc |-> "idle", at |-> "enter", idx |-> 0, sha |-> "none",
     components |-> <<>>, input |-> [requirementsReport |-> <<>>],
     repos |-> {}, files |-> [p \in Paths |-> "none"], lastCall |-> NoCall,
     writes |-> [s \in Stages |-> 0], reads |-> [s \in Stages |-> 0],
     landed |-> [s \in Stages |-> 0], attempted |-> [s \in Stages |-> <<>>],
     started |-> <<>>, returned |-> <<>>, outs |-> <<>>, error |-> "none",
     analysis |-> [s \in UsesLlm |-> "none"]]

(***************************************************************************)
(* The workflow engine: a step that throws fails the run; a step that      *)
(* returns hands its record to the next step, and the last step's record   *)
(* is the result of the run.  A step executed on its own ends the run.     *)
(***************************************************************************)
\* The run failing with a cleanup of what it wrote
RaiseCleansUp(c, msg) ==
    [c EXCEPT !.pc = "failed", !.error = msg, !.at = "idle",
              !.repos = {}, !.files = [p \in Paths |-> "none"]]

Raise(c, msg) == [c EXCEPT !.pc = "failed", !.error = msg, !.at = "idle"]

Return(c, stage, out) ==
    LET k == IndexOf(StageOrder, stage)
        goesOn == mode = "workflow" /\ k < Len(StageOrder)
    IN  [c EXCEPT !.returned = Append(@, stage),
                  !.outs = Append(@, out),
                  !.input = IF goesOn THEN out ELSE @,
                  !.pc = IF goesOn THEN StageOrder[k + 1] ELSE "done",
                  !.at = IF goesOn THEN "enter" ELSE "idle",
                  !.idx = 0,
                  !.sha = "none"]

(***************************************************************************)
(* The hosting API.  It answers a call with a success status ("ok"), with  *)
(* another status ("notOk"), or the call throws ("throws").  While the API *)
(* is out of reach every call fails one way or the other.  Otherwise a     *)
(* repository is created unless the name is taken; a file is read when it  *)
(* exists; a file is written when the repository exists and the sha sent   *)
(* is the sha of the file ("none" for a file that does not exist).  A call *)
(* without a valid token gets status 401.                                  *)
(***************************************************************************)
PostKinds(c, name) ==
    IF ~apiUp THEN {"notOk", "throws"}
    ELSE IF token /\ <<owner, name>> \notin c.repos THEN {"ok"} ELSE {"notOk"}

GetKinds(c, login, name, path) ==
    IF ~apiUp THEN {"notOk", "throws"}
    ELSE IF token /\ <<login, name>> \in c.repos /\ c.files[path] # "none"
         THEN {"ok"}
         ELSE {"notOk"}

PutKinds(c, login, name, path, sent) ==
    IF ~apiUp THEN {"notOk", "throws"}
    ELSE IF token /\ <<login, name>> \in c.repos /\ c.files[path] = sent
         THEN {"ok"}
         ELSE {"notOk"}

\* The owner/name the file calls of a step go to
OwnerFor(stage, in) ==
    IF stage = "initializeFramework" THEN FrameworkOwner
    ELSE OwnerOfUrl(in.repositoryUrl)

(***************************************************************************)
(* The steps, as functions from the state of the run to its next state     *)
(***************************************************************************)
\* Where the loop over the files of a step begins for a file
LoopStart(stage) == IF stage \in ReadsHash THEN "get" ELSE "put"

StageOutput(stage, c) ==
    CASE stage = "initializeFramework" -> initializeFrameworkOutput(c.input)
      [] stage = "generateWebsiteStructure" ->
             generateWebsiteStructureOutput(c.input, c.components)
      [] stage = "generateWebsiteContent" -> generateWebsiteContentOutput(c.input)
      [] stage = "finalizeWebsite" -> finalizeWebsiteOutput(c.input)

\* The end of one pass of the loop: the next file, or the return statement
NextFile(c, stage) ==
    IF c.idx < Len(FilesOf(stage))
    THEN [c EXCEPT !.idx = @ + 1, !.at = LoopStart(stage), !.sha = "none"]
    ELSE Return(c, stage, StageOutput(stage, c))

\* From the top of execute to its first await: the tests of the input
Enter(c, stage) ==
    LET c1 == [c EXCEPT !.started = Append(@, stage)]
    IN  IF stage \in ValidatesName /\ NameMissing(c.input)
        THEN Raise(c1, "Project name is required but was not provided or is empty")
        ELSE IF \E f \in RequiredFlags(stage) : ~Truthy(c.input, f)
        THEN Raise(c1, GateError(stage))
        ELSE IF stage = "createRepository" THEN [c1 EXCEPT !.at = "post"]
        ELSE IF stage \in UsesLlm THEN [c1 EXCEPT !.at = "llm"]
        ELSE IF stage \in ChecksToken /\ ~token
        THEN Raise(c1, "GITHUB_TOKEN environment variable is required")
        ELSE [c1 EXCEPT !.idx = 1, !.at = LoopStart(stage), !.sha = "none"]

\* The POST of createRepository with every answer taken for a success
PostIgnoresStatus(c, kind) ==
    LET repoName == Trim(c.input.projectName)
        call == [stage |-> "createRepository", method |-> "POST",
                 path |-> "none", sent |-> "none", before |-> "none",
                 read |-> "none", kind |-> kind]
        c1 == [c EXCEPT !.lastCall = call, !.writes["createRepository"] = @ + 1]
    IN  IF kind = "throws" THEN Raise(c1, "fetch failed")
        ELSE Return([c1 EXCEPT !.repos = @ \cup {<<owner, repoName>>},
                               !.landed["createRepository"] = @ + 1],
                    "createRepository",
                    createRepositoryOutput(c.input,
                        [html_url |-> HtmlUrl(owner, repoName), name |-> repoName]))

\* The POST of createRepository and what follows its answer
Post(c, kind) ==
    LET repoName == Trim(c.input.projectName)
        call == [stage |-> "createRepository", method |-> "POST",
                 path |-> "none", sent |-> "none", before |-> "none",
                 read |-> "none", kind |-> kind]
        c1 == [c EXCEPT !.lastCall = call, !.writes["createRepository"] = @ + 1]
    IN  IF kind = "throws" THEN Raise(c1, "fetch failed")
        ELSE IF kind = "notOk" THEN Raise(c1, "Failed to create repository")
        ELSE Return([c1 EXCEPT !.repos = @ \cup {<<owner, repoName>>},
                               !.landed["createRepository"] = @ + 1],
                    "createRepository",
                    createRepositoryOutput(c.input,
                        [html_url |-> HtmlUrl(owner, repoName), name |-> repoName]))

\* The language-model call failing with its error thrown on
LlmPropagates(c, stage, outcome) ==
    LET c1 == [c EXCEPT !.analysis[stage] =
                            IF outcome = "ok" THEN "generated" ELSE "fallback"]
    IN  IF outcome # "ok" THEN Raise(c1, "language model call failed")
        ELSE IF ~token
        THEN Raise(c1, "GITHUB_TOKEN environment variable is required")
        ELSE [c1 EXCEPT !.idx = 1, !.at = LoopStart(stage), !.sha = "none"]

\* The language-model call (the import of the agent, then generate) inside
\* its try block, then the test of the token
Llm(c, stage, outcome) ==
    LET c1 == [c EXCEPT !.analysis[stage] =
                            IF outcome = "ok" THEN "generated" ELSE "fallback"]
    IN  IF ~token
        THEN Raise(c1, "GITHUB_TOKEN environment variable is required")
        ELSE [c1 EXCEPT !.idx = 1, !.at = LoopStart(stage), !.sha = "none"]

\* The GET of the current file and what follows its answer
Get(c, stage, kind) ==
    LET path == FilesOf(stage)[c.idx]
        call == [stage |-> stage, method |-> "GET", path |-> path,
                 sent |-> "none", before |-> c.files[path], read |-> "none",
                 kind |-> kind]
        c1 == [c EXCEPT !.lastCall = call,
                        !.reads[stage] = @ + 1,
                        !.attempted[stage] = Append(@, path)]
    IN  IF kind = "throws" THEN NextFile(c1, stage)
        ELSE IF kind = "ok" THEN [c1 EXCEPT !.sha = c.files[path], !.at = "put"]
        ELSE [c1 EXCEPT !.sha = "none", !.at = "put"]

\* The PUT of the current file, with a component path listed whatever the
\* answer is
PutListsAttempts(c, stage, kind) ==
    LET path == FilesOf(stage)[c.idx]
        wasRead == IF stage \notin ReadsHash THEN "none"
                   ELSE IF c.lastCall.kind = "ok" THEN "ok" ELSE "notOk"
        call == [stage |-> stage, method |-> "PUT", path |-> path,
                 sent |-> c.sha, before |-> c.files[path], read |-> wasRead,
                 kind |-> kind]
        c1 == [c EXCEPT !.lastCall = call,
                        !.writes[stage] = @ + 1,
                        !.components =
                            IF stage = "generateWebsiteStructure"
                                   /\ InComponents(path)
                            THEN Append(@, path)
                            ELSE @,
                        !.attempted[stage] =
                            IF stage \in ReadsHash THEN @ ELSE Append(@, path)]
    IN  IF kind = "ok"
        THEN NextFile([c1 EXCEPT !.files[path] = stage,
                                 !.landed[stage] = @ + 1],
                      stage)
        ELSE IF stage \in FatalWrites
        THEN Raise(c1, IF kind = "throws" THEN "fetch failed"
                       ELSE "Failed to create file")
        ELSE NextFile(c1, stage)

\* The PUT of the current file, tried again until it is answered with a
\* success status
PutRetries(c, stage, kind) ==
    LET path == FilesOf(stage)[c.idx]
        wasRead == IF stage \notin ReadsHash THEN "none"
                   ELSE IF c.lastCall.kind = "ok" THEN "ok" ELSE "notOk"
        call == [stage |-> stage, method |-> "PUT", path |-> path,
                 sent |-> c.sha, before |-> c.files[path], read |-> wasRead,
                 kind |-> kind]
        c1 == [c EXCEPT !.lastCall = call,
                        !.writes[stage] = @ + 1,
                        !.attempted[stage] =
                            IF stage \in ReadsHash THEN @ ELSE Append(@, path)]
    IN  IF kind = "ok"
        THEN NextFile([c1 EXCEPT !.files[path] = stage,
                                 !.landed[stage] = @ + 1,
                                 !.components =
                                     IF stage = "generateWebsiteStructure"
                                            /\ InComponents(path)
                                     THEN Append(@, path)
                                     ELSE @],
                      stage)
        ELSE [c EXCEPT !.lastCall = call, !.at = LoopStart(stage), !.sha = "none"]

\* The PUT of the current file and what follows its answer
Put(c, stage, kind) ==
    LET path == FilesOf(stage)[c.idx]
        wasRead == IF stage \notin ReadsHash THEN "none"
                   ELSE IF c.lastCall.kind = "ok" THEN "ok" ELSE "notOk"
        call == [stage |-> stage, method |-> "PUT", path |-> path,
                 sent |-> c.sha, before |-> c.files[path], read |-> wasRead,
                 kind |-> kind]
        c1 == [c EXCEPT !.lastCall = call,
                        !.writes[stage] = @ + 1,
                        !.attempted[stage] =
                            IF stage \in ReadsHash THEN @ ELSE Append(@, path)]
    IN  IF kind = "ok"
        THEN NextFile([c1 EXCEPT !.files[path] = stage,
                                 !.landed[stage] = @ + 1,
                                 !.components =
                                     IF stage = "generateWebsiteStructure"
                                            /\ InComponents(path)
                                     THEN Append(@, path)
                                     ELSE @],
                      stage)
        ELSE IF stage \in FatalWrites
        THEN Raise(c1, IF kind = "throws" THEN "fetch failed"
                       ELSE "Failed to create file")
        ELSE NextFile(c1, stage)

\* No run: the state of the workflow while a pure function is applied
PureRun ==
    /\ mode = "pure"
    /\ token = TRUE
    /\ owner = FrameworkOwner
    /\ apiUp = TRUE
    /\ flips = 0
    /\ peer = Fresh
    /\ Begin(Fresh)

(***************************************************************************)
(* SpecParse: parseRequirements applied to every report of Reports.        *)
(***************************************************************************)
ParseInit ==
    /\ report \in Reports
    /\ clock \in Clocks
    /\ phase = "input"
    /\ parsed = NotParsed
    /\ category = NotClassified
    /\ PureRun

ParseApply ==
    /\ phase = "input"
    /\ parsed' = parseRequirements(report, clock)
    /\ phase' = "applied"
    /\ UNCHANGED <<report, clock, category, envVars, runVars, peer>>

ParseNext == ParseApply

SpecParse == ParseInit /\ [][ParseNext]_vars

(***************************************************************************)
(* C2  Slug validity.  Whatever the report, the projectName that           *)
(* parseRequirements returns is non-empty, at most 25 characters long and  *)
(* made of non-empty runs of lowercase letters and digits separated by     *)
(* single hyphens, also when the cut at 25 characters falls on or next to  *)
(* a hyphen and in both timestamp fallbacks.                               *)
(***************************************************************************)
ValidSlug(s) ==
    /\ s # <<>>
    /\ Len(s) <= 25
    /\ \A i \in 1..Len(s) : s[i] \in LowerLetters \cup DigitChars \cup {"-"}
    /\ s[1] # "-"
    /\ s[Len(s)] # "-"
    /\ \A i \in 1..(Len(s) - 1) : ~(s[i] = "-" /\ s[i + 1] = "-")

C2_SlugValidity ==
    (phase = "applied" /\ ~parsed.threw) => ValidSlug(parsed.value.projectName)

\* A report was parsed whose explicit name, before the cut, was longer than
\* 25 characters with a hyphen as its 25th, so that the cut left a hyphen at
\* the end, which the returned name does not have
C2_Witness ==
    /\ phase = "applied"
    /\ ~parsed.threw
    /\ \E i \in 1..Len(report) :
           LET uncut == sanitizeUncut(SubSeq(report, i, Len(report)))
           IN  /\ Len(uncut) > 25
               /\ uncut[25] = "-"
               /\ parsed.value.projectName = SubSeq(uncut, 1, 24)

\* The three labels of the fields of extractedInfo, and the field of each
FieldLabels ==
    [purpose |-> PurposeLabel,
     targetAudience |-> AudienceLabel,
     businessObjectives |-> ObjectivesLabel]

NoFieldLabel(text) == \A f \in DOMAIN FieldLabels : ~Includes(text, FieldLabels[f])

AllFieldsAbsent(info) == \A f \in DOMAIN FieldLabels : ~info[f].defined

\* !requirementsReport || requirementsReport.trim() === ''
IsBlank(text) == \A i \in 1..Len(text) : text[i] \in WhitespaceChars

(***************************************************************************)
(* C11  Extraction absence-safety, as stated: on a report with none of the *)
(* labels 'Main purpose/goal:', 'Target audience:', 'Business objectives:' *)
(* parseRequirements does not raise, and purpose, targetAudience and       *)
(* businessObjectives of extractedInfo are all absent.                     *)
(***************************************************************************)
C11_NoLabelNeverRaises ==
    (phase = "applied" /\ mode = "pure" /\ NoFieldLabel(report))
        => ~parsed.threw /\ AllFieldsAbsent(parsed.value.extractedInfo)

(***************************************************************************)
(* C11  Extraction absence-safety, amended: on a report with none of the   *)
(* three labels that is not empty and not only whitespace,                 *)
(* parseRequirements does not raise and the three fields of extractedInfo  *)
(* are absent (undefined, not the empty string); on an empty or            *)
(* whitespace-only report it raises.                                       *)
(***************************************************************************)
C11_AbsenceSafety ==
    (phase = "applied" /\ mode = "pure" /\ NoFieldLabel(report))
        => IF IsBlank(report)
           THEN parsed.threw
           ELSE ~parsed.threw /\ AllFieldsAbsent(parsed.value.extractedInfo)

\* A report of several words and a project-name line, with none of the three
\* labels, was parsed
C11_Witness ==
    /\ phase = "applied"
    /\ mode = "pure"
    /\ NoFieldLabel(report)
    /\ Includes(report, <<"P", "r", "o", "j", "e", "c", "t", " ", "N", "a", "m", "e", ":">>)
    /\ Includes(report, <<"p", "o", "r", "t", "f", "o", "l", "i", "o">>)
    /\ ~parsed.threw
    /\ AllFieldsAbsent(parsed.value.extractedInfo)

\* YYYYMMDD of an ISO timestamp YYYY-MM-DDTHH:MM:SS.mmmZ
Ymd(iso) == SubSeq(iso, 1, 4) \o SubSeq(iso, 6, 7) \o SubSeq(iso, 9, 10)

NoNameLabel(text) ==
    /\ ~Includes(ToLowerCase(text), <<"p", "r", "o", "j", "e", "c", "t", " ", "n", "a", "m", "e", ":">>)
    /\ ~Includes(ToLowerCase(text), <<"w", "e", "b", "s", "i", "t", "e", " ", "n", "a", "m", "e", ":">>)

\* The record the empty-report scenario describes
IsDatedDefault(result) ==
    /\ ~result.threw
    /\ AllFieldsAbsent(result.value.extractedInfo)
    /\ result.value.projectName = <<"w", "e", "b", "s", "i", "t", "e", "-">> \o Ymd(clock.iso)

(***************************************************************************)
(* C12  Empty report scenario, as stated: given the empty string as the    *)
(* report, parseRequirements does not raise; it returns extractedInfo with *)
(* all fields absent and the project name 'website-' followed by the       *)
(* current date as YYYYMMDD.                                               *)
(***************************************************************************)
C12_EmptyReportParses ==
    (phase = "applied" /\ mode = "pure" /\ report = <<>>) => IsDatedDefault(parsed)

(***************************************************************************)
(* C12  Empty report scenario, amended: given the empty string as the      *)
(* report, parseRequirements raises 'Requirements report is required but   *)
(* was not provided or is empty' and returns nothing.  The record with all *)
(* fields absent and the name 'website-' followed by the current date as   *)
(* YYYYMMDD is what it returns for a report that is not blank and has none *)
(* of the three labels and no project-name or website-name line.           *)
(***************************************************************************)
C12_EmptyReportRaises ==
    (phase = "applied" /\ mode = "pure")
        => /\ report = <<>>
                => /\ parsed.threw
                   /\ parsed.error =
                        "Requirements report is required but was not provided or is empty"
           /\ (~IsBlank(report) /\ NoFieldLabel(report) /\ NoNameLabel(report))
                => IsDatedDefault(parsed)

\* parseRequirements was applied to the empty report, and raised
C12_Witness ==
    /\ phase = "applied"
    /\ mode = "pure"
    /\ report = <<>>
    /\ parsed.threw
    /\ parsed.error # "not run"

\* The words of a text: its maximal runs of letters and digits, lowercased,
\* in the order in which they begin
WordStarts(lower) ==
    {i \in 1..Len(lower) :
        /\ lower[i] \in LowerLetters \cup DigitChars
        /\ (i = 1 \/ lower[i - 1] \notin LowerLetters \cup DigitChars)}

WordAt(lower, i) ==
    LET j == CHOOSE e \in i..Len(lower) :
                 /\ (e = Len(lower) \/ lower[e + 1] \notin LowerLetters \cup DigitChars)
                 /\ \A k \in i..e : lower[k] \in LowerLetters \cup DigitChars
    IN  SubSeq(lower, i, j)

RECURSIVE WordsFrom(_, _)
WordsFrom(lower, starts) ==
    IF starts = {} THEN <<>>
    ELSE LET i == CHOOSE x \in starts : \A y \in starts : x <= y
         IN  <<WordAt(lower, i)>> \o WordsFrom(lower, starts \ {i})

\* The words of a purpose text that survive: 3 to 12 characters, no stop word
SurvivingWords(text) ==
    LET lower == ToLowerCase(text)
    IN  SelectSeq(WordsFrom(lower, WordStarts(lower)),
                  LAMBDA w : Len(w) >= 3 /\ Len(w) <= 12 /\ w \notin stopWords)

IsBusinessTerm(w) ==
    w \in { <<"p", "o", "r", "t", "f", "o", "l", "i", "o">>, <<"b", "u", "s", "i", "n", "e", "s", "s">>, <<"s", "h", "o", "p">>, <<"s", "t", "o", "r", "e">>, <<"b", "l", "o", "g">>,
            <<"a", "g", "e", "n", "c", "y">>, <<"s", "t", "u", "d", "i", "o">>, <<"c", "o", "m", "p", "a", "n", "y">> }

\* The business terms first, then the other words, each group in the order
\* of the text
Arranged(text) ==
    SelectSeq(SurvivingWords(text), IsBusinessTerm)
        \o SelectSeq(SurvivingWords(text), LAMBDA w : ~IsBusinessTerm(w))

\* The first three words of a sequence joined with hyphens
FirstThreeJoined(ws) ==
    IF Len(ws) = 0 THEN <<>>
    ELSE IF Len(ws) = 1 THEN ws[1]
    ELSE IF Len(ws) = 2 THEN ws[1] \o <<"-">> \o ws[2]
    ELSE ws[1] \o <<"-">> \o ws[2] \o <<"-">> \o ws[3]

\* A candidate name as returned: its first 25 characters, less a hyphen left
\* at the end
AsReturned(candidate) ==
    LET cut == SubSeq(candidate, 1, IF Len(candidate) < 25 THEN Len(candidate) ELSE 25)
    IN  IF cut # <<>> /\ cut[Len(cut)] = "-" THEN SubSeq(cut, 1, Len(cut) - 1) ELSE cut

\* The report was parsed, has no project-name line and has a purpose
NamedFromPurpose ==
    /\ phase = "applied"
    /\ mode = "pure"
    /\ ~parsed.threw
    /\ NoNameLabel(report)
    /\ parsed.value.extractedInfo.purpose.defined

(***************************************************************************)
(* C13  Name synthesis order.  For a purpose text the candidate name is    *)
(* built from the words that survive lowercasing, stop-word removal and    *)
(* the length filter (3 to 12 characters): the business terms (portfolio,  *)
(* business, shop, store, blog, agency, studio, company) in the order of   *)
(* the text, then the other words in the order of the text; the first      *)
(* three words of that arrangement are joined with hyphens.  (The name     *)
(* returned is that candidate cut to 25 characters.)                       *)
(***************************************************************************)
C13_NameSynthesisOrder ==
    NamedFromPurpose
        => LET arranged == Arranged(parsed.value.extractedInfo.purpose.value)
           IN  arranged # <<>>
                   => parsed.value.projectName = AsReturned(FirstThreeJoined(arranged))

\* A purpose with more than three surviving words, the first of which is no
\* business term, gave a name that begins with a business term
C13_Witness ==
    /\ NamedFromPurpose
    /\ LET text == parsed.value.extractedInfo.purpose.value
       IN  /\ Len(SurvivingWords(text)) > 3
           /\ ~IsBusinessTerm(SurvivingWords(text)[1])
           /\ IsBusinessTerm(Arranged(text)[1])
           /\ IsBusinessTerm(Arranged(text)[2])
           /\ \E k \in 1..Len(parsed.value.projectName) :
                  /\ parsed.value.projectName[k] = "-"
                  /\ SubSeq(parsed.value.projectName, 1, k - 1) = Arranged(text)[1]

\* The hyphen-separated segments of a name
Segments(name) == SplitOn(name, "-")

(***************************************************************************)
(* C14  Full-report scenario, as stated: for a report whose purpose line   *)
(* is 'Main purpose/goal: Create a modern portfolio website for a          *)
(* freelance graphic designer' the project name is at most 25 characters,  *)
(* begins with the segment 'portfolio', and every segment of it is a whole *)
(* non-stop-word term of the purpose sentence.                             *)
(***************************************************************************)
C14_ScenarioWholeTerms ==
    (phase = "applied" /\ mode = "pure" /\ report \in ScenarioReports)
        => /\ ~parsed.threw
           /\ Len(parsed.value.projectName) <= 25
           /\ Segments(parsed.value.projectName)[1] = <<"p", "o", "r", "t", "f", "o", "l", "i", "o">>
           /\ \A k \in 1..Len(Segments(parsed.value.projectName)) :
                  \E n \in 1..Len(SurvivingWords(ScenarioPurpose)) :
                      Segments(parsed.value.projectName)[k]
                          = SurvivingWords(ScenarioPurpose)[n]

(***************************************************************************)
(* C14  Full-report scenario, amended: for such a report the project name  *)
(* is 'portfolio-modern-freelanc': at most 25 characters, beginning with   *)
(* the segment 'portfolio'; every segment but the last is a whole          *)
(* non-stop-word term of the purpose sentence, and the last segment is the *)
(* beginning of one (freelance), cut by the limit of 25 characters.        *)
(***************************************************************************)
C14_ScenarioCutName ==
    (phase = "applied" /\ mode = "pure" /\ report \in ScenarioReports)
        => /\ ~parsed.threw
           /\ parsed.value.projectName = <<"p", "o", "r", "t", "f", "o", "l", "i", "o", "-", "m", "o", "d", "e", "r", "n", "-", "f", "r", "e", "e", "l", "a", "n", "c">>
           /\ Len(parsed.value.projectName) <= 25
           /\ LET segs == Segments(parsed.value.projectName)
                  terms == SurvivingWords(ScenarioPurpose)
              IN  /\ segs[1] = <<"p", "o", "r", "t", "f", "o", "l", "i", "o">>
                  /\ \A k \in 1..(Len(segs) - 1) :
                         \E n \in 1..Len(terms) : segs[k] = terms[n]
                  /\ \E n \in 1..Len(terms) :
                         /\ Len(segs[Len(segs)]) >= 1
                         /\ Len(segs[Len(segs)]) < Len(terms[n])
                         /\ SubSeq(terms[n], 1, Len(segs[Len(segs)])) = segs[Len(segs)]

\* The example report as a whole was parsed
C14_Witness ==
    /\ phase = "applied"
    /\ mode = "pure"
    /\ report \in ScenarioReports
    /\ Includes(report, <<"E", "n", "d", " ", "o", "f", " ", "R", "e", "p", "o", "r", "t">>)
    /\ ~parsed.threw
    /\ parsed.value.extractedInfo.purpose = Some(ScenarioPurpose)

\* The lines of a report that hold a label, and the text after the label on
\* a line (after its last occurrence, should it occur twice), trimmed
LinesWith(text, label) ==
    {k \in 1..Len(SplitOn(text, "\n")) : Includes(SplitOn(text, "\n")[k], label)}

TextAfter(line, label) ==
    LET p == CHOOSE i \in 1..(Len(line) - Len(label) + 1) :
                 /\ SubSeq(line, i, i + Len(label) - 1) = label
                 /\ \A j \in (i + 1)..(Len(line) - Len(label) + 1) :
                        SubSeq(line, j, j + Len(label) - 1) # label
    IN  Trim(SubSeq(line, p + Len(label), Len(line)))

\* The text after the label on the last line that holds it
LastValue(text, label) ==
    LET hits == LinesWith(text, label)
        last == CHOOSE k \in hits : \A j \in hits : j <= k
    IN  TextAfter(SplitOn(text, "\n")[last], label)

(***************************************************************************)
(* C15  Field extraction, as stated: for each of the three labels, matched *)
(* case-sensitively, the value extracted is the text of the line after the *)
(* label, trimmed; when the label is on several lines the value of the     *)
(* last of them is returned; a label that is on no line leaves its field   *)
(* absent.                                                                 *)
(***************************************************************************)
C15_FieldIsTextAfterLabel ==
    (phase = "applied" /\ mode = "pure" /\ ~parsed.threw)
        => \A f \in DOMAIN FieldLabels :
               parsed.value.extractedInfo[f]
                   = IF LinesWith(report, FieldLabels[f]) = {}
                     THEN Undefined
                     ELSE Some(LastValue(report, FieldLabels[f]))

(***************************************************************************)
(* C15  Field extraction, amended: as stated, except that a label whose    *)
(* last line has nothing but whitespace after it leaves its field absent   *)
(* (not the empty string), as a label that is on no line does.             *)
(***************************************************************************)
C15_FieldExtraction ==
    (phase = "applied" /\ mode = "pure" /\ ~parsed.threw)
        => \A f \in DOMAIN FieldLabels :
               parsed.value.extractedInfo[f]
                   = IF LinesWith(report, FieldLabels[f]) = {}
                     THEN Undefined
                     ELSE IF LastValue(report, FieldLabels[f]) = <<>>
                     THEN Undefined
                     ELSE Some(LastValue(report, FieldLabels[f]))

\* A report with 'Business objectives:' on two lines, with different texts
\* after it, was parsed: the text of the second line was returned
C15_Witness ==
    /\ phase = "applied"
    /\ mode = "pure"
    /\ ~parsed.threw
    /\ Cardinality(LinesWith(report, ObjectivesLabel)) = 2
    /\ LastValue(report, ObjectivesLabel) # <<>>
    /\ TextAfter(SplitOn(report, "\n")[1], ObjectivesLabel)
           \notin {<<>>, LastValue(report, ObjectivesLabel)}
    /\ parsed.value.extractedInfo.businessObjectives
           = Some(LastValue(report, ObjectivesLabel))

\* The labels of a line that names the project, as they are looked for in the
\* lowercased line
NameLabels == { <<"p", "r", "o", "j", "e", "c", "t", " ", "n", "a", "m", "e", ":">>, <<"w", "e", "b", "s", "i", "t", "e", " ", "n", "a", "m", "e", ":">> }

\* The name a line gives: the text after the last name label of the line,
\* trimmed; empty when the line holds no name label
ExplicitNameOf(line) ==
    LET lower == ToLowerCase(line)
        hits == {p \in NameLabels \X (1..Len(line)) :
                    /\ p[2] + Len(p[1]) - 1 <= Len(line)
                    /\ SubSeq(lower, p[2], p[2] + Len(p[1]) - 1) = p[1]}
        ends == {p[2] + Len(p[1]) : p \in hits}
    IN  IF ends = {} THEN <<>>
        ELSE Trim(SubSeq(line, CHOOSE e \in ends : \A d \in ends : d <= e,
                         Len(line)))

\* The non-empty names the lines of a report give, in the order of the lines
ExplicitNames(text) ==
    LET lines == SplitOn(text, "\n")
    IN  SelectSeq([k \in 1..Len(lines) |-> ExplicitNameOf(lines[k])],
                  LAMBDA v : v # <<>>)

(***************************************************************************)
(* C24  Explicit project name precedence.  When a line of the report holds *)
(* 'project name:' or 'website name:' (in any letter case) followed by a   *)
(* non-empty value, the project name returned is the sanitized form of the *)
(* last such value, whatever the purpose; the name is generated from the   *)
(* purpose (its arranged words, joined and cut) when no line gives such a  *)
(* value.                                                                  *)
(***************************************************************************)
C24_ExplicitNamePrecedence ==
    (phase = "applied" /\ mode = "pure" /\ ~parsed.threw)
        => LET names == ExplicitNames(report)
               purpose == parsed.value.extractedInfo.purpose
           IN  /\ names # <<>>
                    => parsed.value.projectName
                           = sanitizeProjectName(Last(names), clock)
               /\ (names = <<>> /\ purpose.defined /\ Arranged(purpose.value) # <<>>)
                    => parsed.value.projectName
                           = AsReturned(FirstThreeJoined(Arranged(purpose.value)))

\* A report with the purpose 'shop' and, on a later line in capitals, the
\* name '!!': the name returned is not 'shop'
C24_Witness ==
    /\ phase = "applied"
    /\ mode = "pure"
    /\ report = PurposeLabel \o <<" ", "s", "h", "o", "p", "\n"
                             >> \o <<"P", "r", "o", "j", "e", "c", "t", " ", "N", "a", "m", "e", ":", " ", "!", "!">>
    /\ ~parsed.threw
    /\ parsed.value.extractedInfo.purpose = Some(<<"s", "h", "o", "p">>)
    /\ parsed.value.projectName # <<"s", "h", "o", "p">>

\* 'website-' and the date of the clock as YYYYMMDD
DatedDefault == <<"w", "e", "b", "s", "i", "t", "e", "-">> \o Ymd(clock.iso)

\* 'project-' and the last six digits of the clock in milliseconds
TimedDefault == <<"p", "r", "o", "j", "e", "c", "t", "-">> \o MillisSuffix(clock)

\* The report was parsed and no line of it gives a name
NamedWithoutExplicitName ==
    /\ phase = "applied"
    /\ mode = "pure"
    /\ ~parsed.threw
    /\ ExplicitNames(report) = <<>>

MaxTextWords == 2

TextVocabulary ==
    { <<"s", "o", "f", "t", "w", "a", "r", "e">>,
      <<"t", "e", "c", "h", "n", "o", "l", "o", "g", "y">>,
      <<"d", "e", "v", "e", "l", "o", "p", "m", "e", "n", "t">>,
      <<"c", "o", "n", "s", "u", "l", "t", "i", "n", "g">>,
      <<"a", "d", "v", "i", "s", "o", "r", "y">>,
      <<"s", "t", "r", "a", "t", "e", "g", "y">>,
      <<"d", "e", "s", "i", "g", "n">>,
      <<"c", "r", "e", "a", "t", "i", "v", "e">>,
      <<"a", "r", "t">>,
      <<"h", "e", "a", "l", "t", "h">>,
      <<"m", "e", "d", "i", "c", "a", "l">>,
      <<"c", "l", "i", "n", "i", "c">>,
      <<"e", "d", "u", "c", "a", "t", "i", "o", "n">>,
      <<"l", "e", "a", "r", "n", "i", "n", "g">>,
      <<"s", "c", "h", "o", "o", "l">>,
      <<"r", "e", "s", "t", "a", "u", "r", "a", "n", "t">>,
      <<"f", "o", "o", "d">>,
      <<"d", "i", "n", "i", "n", "g">>,
      <<"r", "e", "t", "a", "i", "l">>,
      <<"s", "h", "o", "p">>,
      <<"s", "t", "o", "r", "e">>,
      <<"S", "O", "F", "T", "W", "A", "R", "E">>,
      <<"C", "l", "i", "n", "i", "c">>,
      <<"b", "a", "k", "e", "r", "y">>,
      <<"s", "m", "a", "r", "t">>,
      <<"w", "o", "r", "k", "s", "h", "o", "p">> }

Texts == { JoinWith(ws, <<" ">>) : ws \in SeqsUpTo(TextVocabulary, MaxTextWords) }

ClassifyInit ==
    /\ report \in Texts
    /\ clock \in {c \in Clocks : c.lo = 42}
    /\ phase = "input"
    /\ parsed = NotParsed
    /\ category = NotClassified
    /\ PureRun

ClassifyApply ==
    /\ phase = "input"
    /\ category' = [content |-> inferBusinessType(report),
                    finalizer |-> inferBusinessTypeFinalizer(report)]
    /\ phase' = "applied"
    /\ UNCHANGED <<report, clock, parsed, envVars, runVars, peer>>

ClassifyNext == ClassifyApply

SpecClassify == ClassifyInit /\ [][ClassifyNext]_vars

(***************************************************************************)
(* C9  Classifier totality.  For every text both inferBusinessType         *)
(* functions return one of the eight categories; for the empty text, and   *)
(* for a text whose lowercase form holds none of the keywords, they return *)
(* general.                                                                *)
(***************************************************************************)
Categories ==
    {"technology", "consulting", "creative", "healthcare", "education",
     "restaurant", "retail", "general"}

PriorityOrder ==
    <<"technology", "consulting", "creative", "healthcare", "education",
      "restaurant", "retail">>

\* The categories one of whose keywords occurs in the lowercase text
Present(txt) ==
    {c \in DOMAIN keywords : \E k \in keywords[c] : Includes(ToLowerCase(txt), k)}

C9_ClassifierTotality ==
    phase = "applied" =>
        /\ category.content \in Categories
        /\ category.finalizer \in Categories
        /\ (report = <<>> \/ Present(report) = {}) =>
               (category.content = "general" /\ category.finalizer = "general")

\* A non-empty text without any keyword was classified, as general
C9_Witness ==
    /\ phase = "applied"
    /\ report # <<>>
    /\ Present(report) = {}
    /\ category.content = "general"
    /\ category.finalizer = "general"

(***************************************************************************)
(* C10  Classifier priority.  The category returned is the first of        *)
(* technology, consulting, creative, healthcare, education, restaurant,    *)
(* retail that has a keyword in the lowercase text, wherever in the text   *)
(* the keywords stand; a text with keywords of several categories gets the *)
(* earliest of them in that order.                                         *)
(***************************************************************************)
C10_ClassifierPriority ==
    phase = "applied" =>
        \A i \in 1..Len(PriorityOrder) :
            (/\ PriorityOrder[i] \in Present(report)
             /\ \A j \in 1..(i - 1) : PriorityOrder[j] \notin Present(report))
            => category.content = PriorityOrder[i]

\* A text was classified in which a keyword of a later category stands
\* before the keyword of the category returned
C10_Witness ==
    /\ phase = "applied"
    /\ category.content = "consulting"
    /\ \E i, j \in 0..Len(report) :
           /\ i < j
           /\ i + 6 <= Len(report)
           /\ SubSeq(report, i + 1, i + 6) = <<"s", "c", "h", "o", "o", "l">>
           /\ j + 8 <= Len(report)
           /\ SubSeq(report, j + 1, j + 8) = <<"a", "d", "v", "i", "s", "o", "r", "y">>

(***************************************************************************)
(* The inputs of a run.  A workflow run starts from a report; a step       *)
(* executed on its own starts from the record the step before it would     *)
(* have returned, with every flag of it true, false or missing.            *)
(***************************************************************************)
MaxFlips == 1

WorkflowClock ==
    [iso |-> <<"2", "0", "2", "5", "-", "0", "8", "-", "0", "3", "T", "1", "0", ":", "1", "5", ":", "3", "0", ".", "0", "0", "0", "Z">>, hi |-> 1754216, lo |-> 130000]

WorkflowReports ==
    { <<>>,
      PurposeLabel \o <<" ", "s", "h", "o", "p">>,
      <<"!", "!">> }

StepNames == { <<"s", "h", "o", "p">>, <<>>, <<" ">> }

AllFlags ==
    {"success", "frameworkInitialized", "websiteGenerated", "contentGenerated",
     "stylingCompleted"}

StepRequirements == PurposeLabel \o <<" ", "s", "h", "o", "p">>

\* The record the step before stage returns in a run without failures
CanonicalInput(stage, name, login) ==
    LET parsedOut == [projectName |-> name,
                      requirements |-> StepRequirements,
                      extractedInfo |->
                          [purpose |-> Some(<<"s", "h", "o", "p">>),
                           targetAudience |-> Undefined,
                           businessObjectives |-> Undefined],
                      success |-> TRUE]
        created == createRepositoryOutput(parsedOut,
                       [html_url |-> HtmlUrl(login, Trim(name)),
                        name |-> Trim(name)])
        framed == initializeFrameworkOutput(created)
        built == generateWebsiteStructureOutput(framed,
                     SelectSeq(StructureFiles, InComponents))
    IN  CASE stage = "createRepository" -> parsedOut
          [] stage = "initializeFramework" -> created
          [] stage = "generateWebsiteStructure" -> framed
          [] stage = "generateWebsiteContent" -> built
          [] stage = "finalizeWebsite" -> generateWebsiteContentOutput(built)

\* rec with each of its flags kept, set to false, or left out
FlagSettings(rec) ==
    LET fs == AllFlags \cap DOMAIN rec
    IN  { [f \in (DOMAIN rec \ p[1]) |-> IF f \in p[2] THEN FALSE ELSE rec[f]] :
              p \in {q \in (SUBSET fs) \X (SUBSET fs) : q[1] \cap q[2] = {}} }

\* The files of the repository when stage begins in a run without failures
FilesBefore(stage) ==
    LET k == IndexOf(StageOrder, stage)
        framed == [p \in Paths |->
                      IF k > 3 /\ p \in Range(FrameworkFiles)
                      THEN "initializeFramework" ELSE "none"]
        built == [p \in Paths |->
                     IF k > 4 /\ framed[p] = "none" /\ p \in Range(StructureFiles)
                     THEN "generateWebsiteStructure" ELSE framed[p]]
    IN  [p \in Paths |->
            IF k > 5 /\ p \in Range(ContentFiles)
            THEN "generateWebsiteContent" ELSE built[p]]

WorkflowInit ==
    /\ mode = "workflow"
    /\ report \in WorkflowReports
    /\ Begin([Fresh EXCEPT !.pc = "parseRequirements",
                             !.input = [requirementsReport |-> report]])

StepInit ==
    /\ mode = "step"
    /\ report = <<>>
    /\ \E stage \in Stages \ {"parseRequirements"}, name \in StepNames :
         \E in \in FlagSettings(CanonicalInput(stage, name, owner)),
            taken \in BOOLEAN :
           /\ stage = "createRepository" \/ ~taken
           /\ Begin([Fresh EXCEPT
                  !.pc = stage,
                  !.input = in,
                  !.repos = IF Trim(name) # <<>>
                               /\ (stage # "createRepository" \/ taken)
                            THEN {<<owner, Trim(name)>>} ELSE {},
                  !.files = FilesBefore(stage)])

Init ==
    /\ token \in BOOLEAN
    /\ owner \in {FrameworkOwner, OtherOwner}
    /\ apiUp \in BOOLEAN
    /\ flips = 0
    /\ clock = WorkflowClock
    /\ phase = "input"
    /\ parsed = NotParsed
    /\ category = NotClassified
    /\ peer = Fresh
    /\ (WorkflowInit \/ StepInit)

(***************************************************************************)
(* The actions: one for each await of each step                            *)
(***************************************************************************)
Running(stage, where) == pc = stage /\ at = where

Unchanged == UNCHANGED <<report, clock, category, envVars, peer>>

\* parseRequirements.execute, which awaits nothing
ParseStage ==
    /\ Running("parseRequirements", "enter")
    /\ parsed' = parseRequirements(report, clock)
    /\ phase' = "applied"
    /\ LET c == [Cur EXCEPT !.started = Append(@, "parseRequirements")]
       IN  IF parsed'.threw
           THEN Commit(Raise(c, parsed'.error))
           ELSE Commit(Return(c, "parseRequirements", parsed'.value))
    /\ Unchanged

StepEnter(stage) ==
    /\ Running(stage, "enter")
    /\ Commit(Enter(Cur, stage))
    /\ UNCHANGED <<phase, parsed>>
    /\ Unchanged

StepLlm(stage) ==
    /\ Running(stage, "llm")
    /\ \E outcome \in {"ok", "fails"} : Commit(Llm(Cur, stage, outcome))
    /\ UNCHANGED <<phase, parsed>>
    /\ Unchanged

StepGet(stage) ==
    /\ Running(stage, "get")
    /\ \E kind \in GetKinds(Cur, OwnerFor(stage, input), input.repositoryName,
                            FilesOf(stage)[idx]) :
           Commit(Get(Cur, stage, kind))
    /\ UNCHANGED <<phase, parsed>>
    /\ Unchanged

StepPut(stage) ==
    /\ Running(stage, "put")
    /\ \E kind \in PutKinds(Cur, OwnerFor(stage, input), input.repositoryName,
                            FilesOf(stage)[idx], sha) :
           Commit(Put(Cur, stage, kind))
    /\ UNCHANGED <<phase, parsed>>
    /\ Unchanged

CreateRepositoryEnter == StepEnter("createRepository")

CreateRepositoryPost ==
    /\ Running("createRepository", "post")
    /\ \E kind \in PostKinds(Cur, Trim(input.projectName)) :
           Commit(Post(Cur, kind))
    /\ UNCHANGED <<phase, parsed>>
    /\ Unchanged

InitializeFrameworkEnter == StepEnter("initializeFramework")

InitializeFrameworkPut == StepPut("initializeFramework")

GenerateWebsiteStructureEnter == StepEnter("generateWebsiteStructure")

GenerateWebsiteStructureLlm == StepLlm("generateWebsiteStructure")

GenerateWebsiteStructurePut == StepPut("generateWebsiteStructure")

GenerateWebsiteContentEnter == StepEnter("generateWebsiteContent")

GenerateWebsiteContentLlm == StepLlm("generateWebsiteContent")

GenerateWebsiteContentGet == StepGet("generateWebsiteContent")

GenerateWebsiteContentPut == StepPut("generateWebsiteContent")

FinalizeWebsiteEnter == StepEnter("finalizeWebsite")

FinalizeWebsiteGet == StepGet("finalizeWebsite")

FinalizeWebsitePut == StepPut("finalizeWebsite")

\* The hosting API going out of reach, or coming back, during a run
ToggleApi ==
    /\ pc \in Stages
    /\ flips < MaxFlips
    /\ apiUp' = ~apiUp
    /\ flips' = flips + 1
    /\ UNCHANGED <<pureVars, mode, token, owner, runVars, peer>>

Next ==
    \/ ParseStage
    \/ CreateRepositoryEnter
    \/ CreateRepositoryPost
    \/ InitializeFrameworkEnter
    \/ InitializeFrameworkPut
    \/ GenerateWebsiteStructureEnter
    \/ GenerateWebsiteStructureLlm
    \/ GenerateWebsiteStructurePut
    \/ GenerateWebsiteContentEnter
    \/ GenerateWebsiteContentLlm
    \/ GenerateWebsiteContentGet
    \/ GenerateWebsiteContentPut
    \/ FinalizeWebsiteEnter
    \/ FinalizeWebsiteGet
    \/ FinalizeWebsitePut
    \/ ToggleApi

Spec == Init /\ [][Next]_vars

(***************************************************************************)
(* What the claims about the chain speak of                                *)
(***************************************************************************)
\* The six steps in the order the workflow is declared to run them
ChainOrder ==
    <<"parseRequirements", "createRepository", "initializeFramework",
      "generateWebsiteStructure", "generateWebsiteContent", "finalizeWebsite">>

\* The flags each step after parseRequirements requires of its input
GatingFlags ==
    [createRepository |-> {"success"},
     initializeFramework |-> {"success"},
     generateWebsiteStructure |-> {"success", "frameworkInitialized"},
     generateWebsiteContent |-> {"success", "websiteGenerated"},
     finalizeWebsite |-> {"success", "contentGenerated", "stylingCompleted"}]

\* The flags each file-writing step that isolates failures returns as true
CompletionFlags ==
    [generateWebsiteStructure |-> {"websiteGenerated", "success"},
     generateWebsiteContent |-> {"contentGenerated", "stylingCompleted", "success"},
     finalizeWebsite |-> {"websiteCompleted", "deploymentReady", "success"}]

IsPrefix(s, t) == Len(s) <= Len(t) /\ SubSeq(t, 1, Len(s)) = s

\* stage has begun and has not returned: input is the record it was given
InProgress(stage) ==
    /\ started # <<>>
    /\ Last(started) = stage
    /\ (returned = <<>> \/ Last(returned) # stage)

HasReturned(stage) == stage \in Range(returned)

\* The record stage returned
OutputOf(stage) == outs[IndexOf(returned, stage)]

(***************************************************************************)
(* C1  Stage gating.  For every step after parseRequirements: when a flag  *)
(* the step requires of its input (success, frameworkInitialized,          *)
(* websiteGenerated, contentGenerated, stylingCompleted) is false or       *)
(* missing, the step raises an error and issues no POST and no PUT.        *)
(***************************************************************************)
C1_StageGating ==
    \A stage \in DOMAIN GatingFlags :
        (InProgress(stage) /\ \E f \in GatingFlags[stage] : ~Truthy(input, f))
            => /\ pc = "failed"
               /\ error # "none"
               /\ writes[stage] = 0
               /\ reads[stage] = 0

\* finalizeWebsite was given stylingCompleted: false with every other flag
\* true, a token and the API in reach, and raised
C1_Witness ==
    /\ InProgress("finalizeWebsite")
    /\ Truthy(input, "success")
    /\ Truthy(input, "contentGenerated")
    /\ "stylingCompleted" \in DOMAIN input
    /\ ~Truthy(input, "stylingCompleted")
    /\ token
    /\ apiUp
    /\ pc = "failed"

(***************************************************************************)
(* C3  File update vs create.  In every step that writes files, a PUT to a *)
(* path that exists in the repository carries the sha that a GET of that   *)
(* path, made just before, returned; a PUT to a path that does not exist   *)
(* carries no sha.                                                         *)
(***************************************************************************)
C3_UpdateCarriesHash ==
    lastCall.method = "PUT"
        => /\ lastCall.before # "none"
                => lastCall.read = "ok" /\ lastCall.sent = lastCall.before
           /\ lastCall.before = "none" => lastCall.sent = "none"

(***************************************************************************)
(* C4  Fallback guarantee.  When the language-model call fails in          *)
(* generateWebsiteStructure or generateWebsiteContent, the step does not   *)
(* raise that error: it takes the fallback analysis, goes on to its file   *)
(* writes and, with a token and its gate flags set, returns success: true. *)
(***************************************************************************)
C4_FallbackGuarantee ==
    \A stage \in {"generateWebsiteStructure", "generateWebsiteContent"} :
        (analysis[stage] = "fallback" /\ token)
            => /\ ~(pc = "failed" /\ Last(started) = stage)
               /\ InProgress(stage) => pc = stage /\ at \in {"get", "put"} /\ idx >= 1
               /\ ~InProgress(stage)
                    => HasReturned(stage) /\ Truthy(OutputOf(stage), "success")

\* generateWebsiteContent returned after its language-model call failed,
\* with its four files written
C4_Witness ==
    /\ analysis["generateWebsiteContent"] = "fallback"
    /\ HasReturned("generateWebsiteContent")
    /\ landed["generateWebsiteContent"] = Len(ContentFiles)

(***************************************************************************)
(* C5  Per-file failure isolation.  In generateWebsiteStructure,           *)
(* generateWebsiteContent and finalizeWebsite a file whose GET or PUT      *)
(* fails is skipped: the step does not raise, it goes through every file   *)
(* of its list once, in the order of the list, and returns success: true   *)
(* with its completion flags true, even when no write succeeded.           *)
(***************************************************************************)
C5_FailureIsolation ==
    \A stage \in DOMAIN CompletionFlags :
        /\ IsPrefix(attempted[stage], FilesOf(stage))
        /\ (lastCall.stage = stage /\ lastCall.kind # "ok") => pc # "failed"
        /\ (pc = "failed" /\ started # <<>> /\ Last(started) = stage)
                => attempted[stage] = <<>>
        /\ HasReturned(stage)
                => /\ attempted[stage] = FilesOf(stage)
                   /\ \A f \in CompletionFlags[stage] : Truthy(OutputOf(stage), f)

\* generateWebsiteContent returned though every one of its reads and writes
\* failed, some of the reads by throwing
C5_Witness ==
    /\ HasReturned("generateWebsiteContent")
    /\ landed["generateWebsiteContent"] = 0
    /\ reads["generateWebsiteContent"] = Len(ContentFiles)
    /\ writes["generateWebsiteContent"] \in 1..(Len(ContentFiles) - 1)

(***************************************************************************)
(* C6  Fatal remote errors.  A call of createRepository (its POST) or of   *)
(* initializeFramework (any of its PUTs) that does not succeed makes the   *)
(* step raise: the run has failed, the file of that call is the last one   *)
(* the step went to, and generateWebsiteStructure, generateWebsiteContent  *)
(* and finalizeWebsite neither begin nor make any call.                    *)
(***************************************************************************)
C6_FatalRemoteErrors ==
    (lastCall.stage \in {"createRepository", "initializeFramework"}
        /\ lastCall.kind # "ok")
        => /\ pc = "failed"
           /\ error # "none"
           /\ Last(started) = lastCall.stage
           /\ ~HasReturned(lastCall.stage)
           /\ lastCall.stage = "initializeFramework"
                => /\ Last(attempted["initializeFramework"]) = lastCall.path
                   /\ Len(attempted["initializeFramework"])
                        = writes["initializeFramework"]
                   /\ IsPrefix(attempted["initializeFramework"], FrameworkFiles)
           /\ \A later \in DOMAIN CompletionFlags :
                /\ later \notin Range(started)
                /\ writes[later] = 0
                /\ reads[later] = 0

\* In a run of the workflow a PUT of initializeFramework got a non-success
\* status after earlier files of the step were written
C6_Witness ==
    /\ mode = "workflow"
    /\ lastCall.stage = "initializeFramework"
    /\ lastCall.kind = "notOk"
    /\ landed["initializeFramework"] > 0

(***************************************************************************)
(* C7  Outcome dichotomy.  A run of the workflow that has ended either     *)
(* ended with an error, or returned a result in which                      *)
(* frameworkInitialized, websiteCompleted, deploymentReady and success are *)
(* all true; no result with one of them false is returned.                 *)
(***************************************************************************)
C7_OutcomeDichotomy ==
    mode = "workflow"
        => /\ pc \in Range(ChainOrder) \cup {"done", "failed"}
           /\ pc = "failed" => error # "none" /\ Len(outs) < Len(ChainOrder)
           /\ pc = "done"
                => /\ error = "none"
                   /\ Len(outs) = Len(ChainOrder)
                   /\ \A f \in {"frameworkInitialized", "websiteCompleted",
                                "deploymentReady", "success"} :
                          Truthy(Last(outs), f)
           /\ Len(outs) = Len(ChainOrder) => pc = "done"

\* A run of the workflow returned its result though not every file of
\* finalizeWebsite was written
C7_Witness ==
    /\ mode = "workflow"
    /\ pc = "done"
    /\ landed["finalizeWebsite"] < Len(FinalFiles)

(***************************************************************************)
(* C8  Strict linear ordering.  In a run of the workflow the steps begin   *)
(* in the order parseRequirements, createRepository, initializeFramework,  *)
(* generateWebsiteStructure, generateWebsiteContent, finalizeWebsite; a    *)
(* step begins only when the step before it has returned; no step runs     *)
(* twice, is skipped or is gone back to; a step makes calls only while it  *)
(* is the one running.                                                     *)
(***************************************************************************)
C8_LinearOrdering ==
    mode = "workflow"
        => /\ IsPrefix(started, ChainOrder)
           /\ IsPrefix(returned, started)
           /\ Len(started) <= Len(returned) + 1
           /\ (pc \in Range(ChainOrder) /\ at = "enter")
                => returned = started /\ pc = ChainOrder[Len(started) + 1]
           /\ (pc \in Range(ChainOrder) /\ at # "enter")
                => Len(started) = Len(returned) + 1 /\ pc = Last(started)
           /\ pc = "done" => returned = ChainOrder
           /\ \A stage \in Range(ChainOrder) :
                (writes[stage] + reads[stage] > 0) => stage \in Range(started)
           /\ lastCall.stage # "none" => lastCall.stage \in Range(started)

\* A run of the workflow went through all six steps and ended
C8_Witness ==
    /\ mode = "workflow"
    /\ pc = "done"
    /\ started = ChainOrder
    /\ \A stage \in Range(ChainOrder) \ {"parseRequirements"} : writes[stage] > 0

(***************************************************************************)
(* C16  Identity and traceability frame.  In a run of the workflow, the    *)
(* projectName and the requirements in the record each of createRepository,*)
(* initializeFramework, generateWebsiteStructure, generateWebsiteContent   *)
(* and finalizeWebsite returns are the projectName parseRequirements       *)
(* returned and the report the run was given: no step changes either.      *)
(***************************************************************************)
C16_IdentityFrame ==
    (mode = "workflow" /\ outs # <<>>)
        => /\ outs[1] = parsed.value
           /\ outs[1].requirements = report
           /\ \A i \in 2..Len(outs) :
                  /\ {"projectName", "requirements"} \subseteq DOMAIN outs[i]
                  /\ outs[i].projectName = parsed.value.projectName
                  /\ outs[i].requirements = report

\* A run of the workflow on a report with a purpose went through all six
\* steps; finalizeWebsite returned the name made from the purpose
C16_Witness ==
    /\ mode = "workflow"
    /\ pc = "done"
    /\ Len(outs) = Len(ChainOrder)
    /\ outs[Len(outs)].projectName = <<"s", "h", "o", "p">>
    /\ outs[Len(outs)].requirements = report

(***************************************************************************)
(* C17  Superset growth, as stated: for every step, every field of the     *)
(* record the step is given (extractedInfo, repositoryUrl,                 *)
(* frameworkInitialized, websiteGenerated, componentsCreated,              *)
(* contentGenerated, stylingCompleted among them) is a field of the record *)
(* it returns: a step only adds fields.                                    *)
(***************************************************************************)
C17_OutputKeepsEveryField ==
    mode = "workflow"
        => \A i \in 2..Len(outs) : DOMAIN outs[i - 1] \subseteq DOMAIN outs[i]

\* The fields of the record each step returns
ReturnedFields ==
    [parseRequirements |->
        {"projectName", "requirements", "extractedInfo", "success"},
     createRepository |->
        {"repositoryUrl", "repositoryName", "projectName", "requirements",
         "extractedInfo", "success"},
     initializeFramework |->
        {"repositoryUrl", "repositoryName", "projectName", "requirements",
         "frameworkInitialized", "success"},
     generateWebsiteStructure |->
        {"repositoryUrl", "repositoryName", "projectName", "requirements",
         "websiteGenerated", "componentsCreated", "success"},
     generateWebsiteContent |->
        {"repositoryUrl", "repositoryName", "projectName", "requirements",
         "contentGenerated", "stylingCompleted", "success"},
     finalizeWebsite |->
        {"repositoryUrl", "repositoryName", "projectName", "requirements",
         "frameworkInitialized", "websiteCompleted", "deploymentReady",
         "success"}]

(***************************************************************************)
(* C17  Superset growth, amended: for every step, the fields               *)
(* repositoryUrl, repositoryName, projectName, requirements and success of *)
(* the record it is given are fields of the record it returns, and         *)
(* createRepository also hands on extractedInfo.  Nothing else is handed   *)
(* on: initializeFramework drops extractedInfo, generateWebsiteStructure   *)
(* drops frameworkInitialized, generateWebsiteContent drops                *)
(* websiteGenerated and componentsCreated, finalizeWebsite drops           *)
(* contentGenerated and stylingCompleted; the record a step returns has    *)
(* those five fields and the fields the step itself sets.                  *)
(***************************************************************************)
C17_IdentityFieldsKept ==
    /\ Len(outs) = Len(returned)
    /\ \A i \in 1..Len(outs) : DOMAIN outs[i] = ReturnedFields[returned[i]]
    /\ mode = "workflow"
        => \A i \in 2..Len(outs) :
               DOMAIN outs[i - 1]
                   \cap {"repositoryUrl", "repositoryName", "projectName",
                         "requirements", "success"}
                   \subseteq DOMAIN outs[i]

\* A run of the workflow ended: createRepository returned extractedInfo and
\* initializeFramework did not; initializeFramework returned
\* frameworkInitialized and generateWebsiteStructure did not
C17_Witness ==
    /\ mode = "workflow"
    /\ pc = "done"
    /\ "extractedInfo" \in DOMAIN outs[2] \ DOMAIN outs[3]
    /\ "frameworkInitialized" \in DOMAIN outs[3] \ DOMAIN outs[4]
    /\ "componentsCreated" \in DOMAIN outs[4] \ DOMAIN outs[5]

\* The boolean flags of the record handed from step to step
PipelineFlags ==
    {"success", "frameworkInitialized", "websiteGenerated", "contentGenerated",
     "stylingCompleted", "deploymentReady"}

\* rec has the flag f, set to false
CarriesFalse(rec, f) == f \in DOMAIN rec /\ rec[f] = FALSE

(***************************************************************************)
(* C18  Flag monotonicity.  Along a run, once success,                     *)
(* frameworkInitialized, websiteGenerated, contentGenerated,               *)
(* stylingCompleted or deploymentReady is true in the record a step        *)
(* returned (or in the record a step run on its own was given), no record  *)
(* a later step returns has that flag set to false; and a step given a     *)
(* record in which a flag it requires is false or missing does not         *)
(* proceed: it returns nothing and the run has failed.  In a run of the    *)
(* workflow every step that began was given the flags it requires as true. *)
(***************************************************************************)
C18_FlagMonotonicity ==
    /\ \A f \in PipelineFlags :
         /\ \A j \in 1..Len(outs) :
                \A i \in 1..(j - 1) :
                    Truthy(outs[i], f) => ~CarriesFalse(outs[j], f)
         /\ (mode = "step" /\ Truthy(input, f))
                => \A j \in 1..Len(outs) : ~CarriesFalse(outs[j], f)
    /\ \A stage \in DOMAIN GatingFlags :
         (stage \in Range(started)
              /\ mode = "step"
              /\ \E f \in GatingFlags[stage] : ~Truthy(input, f))
            => /\ ~HasReturned(stage)
               /\ pc = "failed"
    /\ \A k \in 2..Len(started) :
         mode = "workflow"
            => \A f \in GatingFlags[started[k]] :
                   k - 1 <= Len(outs) /\ Truthy(outs[k - 1], f)

\* The API went out of reach after initializeFramework returned success:
\* true; generateWebsiteStructure wrote no file and returned, and every
\* record returned since has success: true
C18_Witness ==
    /\ mode = "workflow"
    /\ pc = "done"
    /\ Len(outs) = 6
    /\ landed["generateWebsiteStructure"] = 0
    /\ \A i \in 1..6 : Truthy(outs[i], "success")
    /\ Truthy(outs[3], "frameworkInitialized")
    /\ Truthy(outs[6], "frameworkInitialized")
    /\ Truthy(outs[6], "deploymentReady")

(***************************************************************************)
(* C19  Identity re-validation.  Every step after parseRequirements        *)
(* (createRepository, initializeFramework, generateWebsiteStructure,       *)
(* generateWebsiteContent, finalizeWebsite) that is given a record whose   *)
(* projectName is missing, empty or only white space raises an error       *)
(* before it issues any call to the hosting API.                           *)
(***************************************************************************)
C19_NameRevalidated ==
    \A stage \in DOMAIN GatingFlags :
        (InProgress(stage) /\ NameMissing(input))
            => /\ pc = "failed"
               /\ writes[stage] = 0
               /\ reads[stage] = 0

(***************************************************************************)
(* C20  Missing credential is fatal.  When GITHUB_TOKEN is not set, every  *)
(* step that writes to the hosting API (createRepository,                  *)
(* initializeFramework, generateWebsiteStructure, generateWebsiteContent,  *)
(* finalizeWebsite) raises an error for the whole step: it issues no POST  *)
(* and no PUT, and it does not return.                                     *)
(***************************************************************************)
C20_NoTokenNoWrite ==
    ~token
        => \A stage \in DOMAIN GatingFlags :
               /\ writes[stage] = 0
               /\ ~HasReturned(stage)

(***************************************************************************)
(* C21  No rollback.  No step issues a delete: every call to the hosting   *)
(* API is a POST, a GET or a PUT.  In every step of a run, also the step   *)
(* in which a stage raises, every repository that exists still exists      *)
(* after it and every path that holds a file still holds one: the set of   *)
(* remote paths only grows.                                                *)
(***************************************************************************)
C21_NoRollback ==
    [][/\ lastCall'.method \in {"none", "POST", "GET", "PUT"}
       /\ repos \subseteq repos'
       /\ \A p \in Paths : files[p] # "none" => files'[p] # "none"]_vars

\* A run of the workflow failed inside initializeFramework after some of
\* its files were written: the repository and those files are there
C21_Witness ==
    /\ mode = "workflow"
    /\ pc = "failed"
    /\ Last(started) = "initializeFramework"
    /\ landed["initializeFramework"] > 0
    /\ repos # {}
    /\ files["package.json"] = "initializeFramework"

(***************************************************************************)
(* C26  Single repository coordinate.  Within a run of the workflow every  *)
(* file write of initializeFramework, generateWebsiteStructure,            *)
(* generateWebsiteContent and finalizeWebsite goes to the owner and name   *)
(* of the repository createRepository created (the owner of its            *)
(* repositoryUrl and its repositoryName), whoever owns the token.          *)
(***************************************************************************)
C26_SingleCoordinate ==
    (mode = "workflow" /\ lastCall.method = "PUT")
        => LET created == OutputOf("createRepository")
           IN  /\ OwnerFor(lastCall.stage, input) = OwnerOfUrl(created.repositoryUrl)
               /\ OwnerFor(lastCall.stage, input) = owner
               /\ input.repositoryName = created.repositoryName

\* The record generateWebsiteStructure was given
StructureInput ==
    IF mode = "workflow" THEN OutputOf("initializeFramework") ELSE input

ComponentsWritten ==
    SelectSeq(StructureFiles,
              LAMBDA p : InComponents(p) /\ files[p] = "generateWebsiteStructure")

(***************************************************************************)
(* C28  componentsCreated exactness.  The componentsCreated that           *)
(* generateWebsiteStructure returns lists exactly the paths under          *)
(* 'components/' whose PUT in that step was answered with a success        *)
(* status, each once and in the order of the writes; a path whose PUT      *)
(* failed or threw is not listed, and the list is empty when every write   *)
(* failed.  (Checked where the structure step is the last to have          *)
(* returned and the content step has not written over its files.)          *)
(***************************************************************************)
C28_ComponentsExact ==
    (/\ returned # <<>>
     /\ Last(returned) = "generateWebsiteStructure"
     /\ landed["generateWebsiteContent"] = 0)
        => LET listed == OutputOf("generateWebsiteStructure").componentsCreated
           IN  /\ listed = ComponentsWritten
               /\ \A i, j \in 1..Len(listed) : listed[i] = listed[j] => i = j
               /\ landed["generateWebsiteStructure"] = 0 => listed = <<>>

\* The API went away during the structure step: some component files were
\* written and listed, others failed and are not listed
C28_Witness ==
    /\ returned # <<>>
    /\ Last(returned) = "generateWebsiteStructure"
    /\ LET listed == OutputOf("generateWebsiteStructure").componentsCreated
       IN  /\ listed # <<>>
           /\ Len(listed) < 6
           /\ listed[1] = "src/components/Header.tsx"

\* The last step, in the order of the chain, whose list of files holds path
LastListing(path) ==
    LET ks == {k \in 1..Len(ChainOrder) : path \in Range(FilesOf(ChainOrder[k]))}
    IN  ChainOrder[CHOOSE k \in ks : \A j \in ks : j <= k]

(***************************************************************************)
(* C29  Last writer wins on shared paths.  When the hosting API was in     *)
(* reach during the whole run (it refuses only a write without a hash to a *)
(* path that exists) and all six steps returned, every path holds what the *)
(* last step whose list of files contains it generated; src/App.tsx holds  *)
(* the App component of the structure step, not the scaffold of the        *)
(* framework step.                                                         *)
(***************************************************************************)
C29_LastWriterWins ==
    (mode = "workflow" /\ pc = "done" /\ flips = 0 /\ apiUp /\ token)
        => /\ \A p \in Paths : files[p] = LastListing(p)
           /\ files["src/App.tsx"] = "generateWebsiteStructure"

(***************************************************************************)
(* FairSpec: the runs of Spec in which a step that can go on does go on.   *)
(* Every call a step awaits is answered or fails, and the runtime then     *)
(* resumes the step; the hosting API going away or coming back is not      *)
(* bound to happen.  The condition is weak fairness of RunNext,            *)
(* WF_vars(RunNext), written out: ENABLED <<RunNext>>_vars is Runnable,    *)
(* since a run that is at a step always has a next action (every guard of  *)
(* a step action is Running(stage, where), and the sets its answers are    *)
(* drawn from are never empty).                                            *)
(***************************************************************************)
\* A step of the run is waiting to go on
Runnable == pc \in Stages

RunNext ==
    \/ ParseStage
    \/ CreateRepositoryEnter
    \/ CreateRepositoryPost
    \/ InitializeFrameworkEnter
    \/ InitializeFrameworkPut
    \/ GenerateWebsiteStructureEnter
    \/ GenerateWebsiteStructureLlm
    \/ GenerateWebsiteStructurePut
    \/ GenerateWebsiteContentEnter
    \/ GenerateWebsiteContentLlm
    \/ GenerateWebsiteContentGet
    \/ GenerateWebsiteContentPut
    \/ FinalizeWebsiteEnter
    \/ FinalizeWebsiteGet
    \/ FinalizeWebsitePut

FairSpec ==
    /\ Init
    /\ [][Next]_vars
    /\ ([]<>(~Runnable) \/ []<><<RunNext>>_vars)

(***************************************************************************)
(* C30  Termination.  When every call to the hosting API and to the        *)
(* language model is answered or fails, every run, of the workflow or of   *)
(* one step, ends: it reaches "done" (after finalizeWebsite in a run of    *)
(* the workflow) or "failed".                                              *)
(***************************************************************************)
C30_Termination == <>(pc \in {"done", "failed"})

\* A run of the workflow during which the API went away ended after
\* finalizeWebsite returned
C30_Witness ==
    /\ mode = "workflow"
    /\ pc = "done"
    /\ flips = 1
    /\ Last(returned) = "finalizeWebsite"
    /\ landed["finalizeWebsite"] < Len(FinalFiles)

(***************************************************************************)
(* emailSender: the tool that sends the requirements report by e-mail.     *)
(* Its execute is one try block: the tests of the input, the message, the  *)
(* call of the mail service, and a catch that returns the failure.         *)
(***************************************************************************)
\* !x for a string field of the input: the field is missing or empty
HasText(rec, f) == f \in DOMAIN rec /\ rec[f] # <<>>

\* new Error(message), and a thrown value that is no Error
ErrorOf(message) == [isError |-> TRUE, message |-> message]
NotAnError == [isError |-> FALSE, message |-> <<>>]

emailReturn(c, out) ==
    [c EXCEPT !.returned = Append(@, "emailSender"),
              !.outs = Append(@, out),
              !.pc = "done",
              !.at = "idle"]

\* The catch block handing the error thrown on to the caller
emailCatchRethrows(c, thrown) == Raise(c, "emailSender failed")

\* The catch block: error instanceof Error ? error.message : 'Unknown ...'
emailCatch(c, thrown) ==
    emailReturn(c, [success |-> FALSE,
                    error |-> IF thrown.isError THEN thrown.message
                              ELSE <<"U", "n", "k", "n", "o", "w", "n", " ", "e", "r", "r", "o", "r", " ", "o", "c", "c", "u", "r", "r", "e", "d">>])

\* The argument of resend.emails.send
emailMessage(in) ==
    [from |-> <<"W", "e", "b", "s", "i", "t", "e", " ", "C", "o", "n", "s", "u", "l", "t", "a", "n", "t", " ", "<", "o", "n", "b", "o", "a", "r", "d", "i", "n", "g", "@", "r", "e", "s", "e", "n", "d", ".", "d", "e", "v", ">">>,
     to |-> <<in.recipientEmail>>,
     subject |-> IF HasText(in, "subject") THEN in.subject
                 ELSE <<"Y", "o", "u", "r", " ", "W", "e", "b", "s", "i", "t", "e", " ", "R", "e", "q", "u", "i", "r", "e", "m", "e", "n", "t", "s", " ", "R", "e", "p", "o", "r", "t">>,
     greeting |-> IF HasText(in, "recipientName")
                  THEN <<"H", "i", " ">> \o in.recipientName \o <<",">>
                  ELSE <<"H", "e", "l", "l", "o", ",">>,
     text |-> <<"W", "e", "b", "s", "i", "t", "e", " ", "R", "e", "q", "u", "i", "r", "e", "m", "e", "n", "t", "s", " ", "R", "e", "p", "o", "r", "t", "\n", "\n">> \o in.reportContent]

\* From the top of execute to the await of the send call
emailSenderEnter(c) ==
    LET c1 == [c EXCEPT !.started = Append(@, "emailSender")]
    IN  IF ~HasText(c.input, "recipientEmail")
        THEN emailCatch(c1,
                 ErrorOf(<<"r", "e", "c", "i", "p", "i", "e", "n", "t", "E", "m", "a", "i", "l", " ", "i", "s", " ", "r", "e", "q", "u", "i", "r", "e", "d", " ", "b", "u", "t", " ", "w", "a", "s", " ", "n", "o", "t", " ", "p", "r", "o", "v", "i", "d", "e", "d">>))
        ELSE IF ~HasText(c.input, "reportContent")
        THEN emailCatch(c1,
                 ErrorOf(<<"r", "e", "p", "o", "r", "t", "C", "o", "n", "t", "e", "n", "t", " ", "i", "s", " ", "r", "e", "q", "u", "i", "r", "e", "d", " ", "b", "u", "t", " ", "w", "a", "s", " ", "n", "o", "t", " ", "p", "r", "o", "v", "i", "d", "e", "d">>))
        ELSE [c1 EXCEPT !.at = "send"]

\* The send call and what follows its answer
emailSenderSend(c, answer) ==
    LET c1 == [c EXCEPT !.lastCall = [stage |-> "emailSender",
                                      method |-> "SEND",
                                      sent |-> emailMessage(c.input),
                                      answer |-> answer]]
    IN  IF answer.kind = "throws" THEN emailCatch(c1, answer.thrown)
        ELSE IF answer.error.defined
        THEN emailCatch(c1, ErrorOf(<<"R", "e", "s", "e", "n", "d", " ", "A", "P", "I", " ", "E", "r", "r", "o", "r", ":", " ">> \o answer.error.value))
        ELSE emailReturn(c1,
                 [success |-> TRUE,
                  messageId |-> IF answer.id.defined /\ answer.id.value # <<>>
                                THEN answer.id.value
                                ELSE <<"E", "m", "a", "i", "l", " ", "s", "e", "n", "t", " ", "s", "u", "c", "c", "e", "s", "s", "f", "u", "l", "l", "y">>])

\* What the mail service may do with a send call: answer with data (with an
\* id or without), answer with an error, or throw (an Error or another
\* value; the value thrown is one that console.error and JSON.stringify
\* print)
SendAnswers ==
    { [kind |-> "answered", error |-> Undefined, id |-> Some(<<"r", "e", "_", "1", "2", "3">>)],
      [kind |-> "answered", error |-> Undefined, id |-> Undefined],
      [kind |-> "answered",
       error |-> Some(<<"Y", "o", "u", " ", "c", "a", "n", " ", "o", "n", "l", "y", " ", "s", "e", "n", "d", " ", "t", "e", "s", "t", "i", "n", "g", " ", "e", "m", "a", "i", "l", "s">>), id |-> Undefined],
      [kind |-> "throws", thrown |-> ErrorOf(<<"f", "e", "t", "c", "h", " ", "f", "a", "i", "l", "e", "d">>)],
      [kind |-> "throws", thrown |-> NotAnError] }

\* A field left out, or given one of the values
FieldChoices(f, values) ==
    {[x \in {} |-> <<>>]} \cup {[x \in {f} |-> v] : v \in values}

EmailInputs ==
    { e @@ r @@ s @@ n :
        e \in FieldChoices("recipientEmail", {<<>>, <<"a", "@", "b", ".", "c", "o">>, <<"e", "i", "m", "a", "@", "x", ".", "i", "o">>}),
        r \in FieldChoices("reportContent", {<<>>, <<"M", "a", "i", "n", " ", "p", "u", "r", "p", "o", "s", "e", "/", "g", "o", "a", "l", ":", " ", "s", "h", "o", "p">>}),
        s \in FieldChoices("subject", {<<>>, <<"R", "e", "p", "o", "r", "t">>}),
        n \in FieldChoices("recipientName", {<<"A", "n", "n">>}) }

EmailInit ==
    /\ mode = "email"
    /\ token = TRUE
    /\ owner = FrameworkOwner
    /\ apiUp = TRUE
    /\ flips = 0
    /\ report = <<>>
    /\ clock = WorkflowClock
    /\ phase = "input"
    /\ parsed = NotParsed
    /\ category = NotClassified
    /\ peer = Fresh
    /\ \E in \in EmailInputs :
           Begin([Fresh EXCEPT !.pc = "emailSender", !.input = in])

EmailSenderEnter ==
    /\ Running("emailSender", "enter")
    /\ Commit(emailSenderEnter(Cur))
    /\ UNCHANGED <<pureVars, envVars, peer>>

EmailSenderSend ==
    /\ Running("emailSender", "send")
    /\ \E answer \in SendAnswers : Commit(emailSenderSend(Cur, answer))
    /\ UNCHANGED <<pureVars, envVars, peer>>

EmailNext == EmailSenderEnter \/ EmailSenderSend

SpecEmail == EmailInit /\ [][EmailNext]_vars

\* A required field of the input is missing or empty
RequiredMissing == ~HasText(input, "recipientEmail") \/ ~HasText(input, "reportContent")

PeerCur == [peer EXCEPT !.repos = repos, !.files = files]

PeerCommit(d) ==
    /\ peer' = [d EXCEPT !.repos = {}, !.files = Fresh.files]
    /\ repos' = d.repos
    /\ files' = d.files
    /\ UNCHANGED <<pureVars, envVars, pc, at, idx, sha, components, input,
                   lastCall, writes, reads, landed, attempted, started,
                   returned, outs, error, analysis>>

PeerParse ==
    /\ peer.pc = "parseRequirements"
    /\ peer.at = "enter"
    /\ \E result \in {parseRequirements(peer.input.requirementsReport, clock)} :
           LET c == [PeerCur EXCEPT !.started = Append(@, "parseRequirements")]
           IN  IF result.threw
               THEN PeerCommit(Raise(c, result.error))
               ELSE PeerCommit(Return(c, "parseRequirements", result.value))

PeerEnter ==
    /\ peer.pc \in Stages \ {"parseRequirements"}
    /\ peer.at = "enter"
    /\ PeerCommit(Enter(PeerCur, peer.pc))

PeerPost ==
    /\ peer.pc = "createRepository"
    /\ peer.at = "post"
    /\ \E kind \in PostKinds(PeerCur, Trim(peer.input.projectName)) :
           PeerCommit(Post(PeerCur, kind))

PeerLlm ==
    /\ peer.pc \in UsesLlm
    /\ peer.at = "llm"
    /\ \E outcome \in {"ok", "fails"} : PeerCommit(Llm(PeerCur, peer.pc, outcome))

PeerGet ==
    /\ peer.pc \in Stages
    /\ peer.at = "get"
    /\ \E kind \in GetKinds(PeerCur, OwnerFor(peer.pc, peer.input),
                            peer.input.repositoryName,
                            FilesOf(peer.pc)[peer.idx]) :
           PeerCommit(Get(PeerCur, peer.pc, kind))

PeerPut ==
    /\ peer.pc \in Stages
    /\ peer.at = "put"
    /\ \E kind \in PutKinds(PeerCur, OwnerFor(peer.pc, peer.input),
                            peer.input.repositoryName,
                            FilesOf(peer.pc)[peer.idx], peer.sha) :
           PeerCommit(Put(PeerCur, peer.pc, kind))

RaceInit ==
    /\ mode = "workflow"
    /\ token = TRUE
    /\ owner \in {FrameworkOwner, OtherOwner}
    /\ apiUp = TRUE
    /\ flips = 0
    /\ clock = WorkflowClock
    /\ phase = "input"
    /\ parsed = NotParsed
    /\ category = NotClassified
    /\ report = <<"M", "a", "i", "n", " ", "p", "u", "r", "p", "o", "s", "e", "/", "g", "o", "a", "l", ":", " ", "s", "h", "o", "p">>
    /\ Begin([Fresh EXCEPT !.pc = "parseRequirements",
                             !.input = [requirementsReport |-> report]])
    /\ \E other \in {report, <<"P", "r", "o", "j", "e", "c", "t", " ", "N", "a", "m", "e", ":", " ", "s", "h", "o", "p">>} :
           peer = [Fresh EXCEPT !.pc = "parseRequirements",
                                !.input = [requirementsReport |-> other]]

RaceNext ==
    \/ RunNext
    \/ PeerParse
    \/ PeerEnter
    \/ PeerPost
    \/ PeerLlm
    \/ PeerGet
    \/ PeerPut

SpecRace == RaceInit /\ [][RaceNext]_vars

\* The two runs, and the steps of a run that write files
Runs == {Cur, peer}

FileSteps == Stages \ {"parseRequirements", "createRepository"}

Created(run) == run.landed["createRepository"] > 0

Refused(run) == run.writes["createRepository"] > 0 /\ ~Created(run)

(***************************************************************************)
(* C22  Two runs with the same derived project name.  When two runs under  *)
(* the same credential interleave in any order and both derive the same    *)
(* project name, and the hosting API admits one repository per name, at    *)
(* most one run's createRepository succeeds; the other run raises the      *)
(* repository-creation error and never makes a file write.                 *)
(***************************************************************************)
C22_OneCreatorPerName ==
    /\ ~(Created(Cur) /\ Created(peer))
    /\ \A run \in Runs :
         /\ ~Created(run) => \A s \in FileSteps : run.writes[s] = 0
         /\ Refused(run)
              => /\ run.pc = "failed"
                 /\ run.error = "Failed to create repository"
                 /\ "createRepository" \notin Range(run.returned)
    /\ (writes["createRepository"] > 0 /\ peer.writes["createRepository"] > 0)
         => (Created(Cur) /\ Refused(peer)) \/ (Created(peer) /\ Refused(Cur))

\* Both runs derived the name 'shop' from different reports, the second run
\* created the repository and wrote a file to it, and the first run's POST
\* was refused
C22_Witness ==
    /\ Len(outs) > 0
    /\ Len(peer.outs) > 0
    /\ outs[1].projectName = peer.outs[1].projectName
    /\ outs[1].requirements # peer.outs[1].requirements
    /\ Created(peer)
    /\ peer.landed["initializeFramework"] > 0
    /\ Refused(Cur)
    /\ pc = "failed"

====
